---- MODULE Spec2Model ----
(***************************************************************************)
(* gocrema: the Notifier, the address filter and the connection checks     *)
(* (src/notifier.go), the Cache actor (src/cache.go) and the event stream  *)
(* client (src/eventsource/eventsource.go).                                *)
(*                                                                         *)
(* The specifications share the definitions:                               *)
(*   SpecNotifier  the Notifier alone, driven by Register, Unregister,     *)
(*                 Notify and the subscribers' receives; the k-th Notify   *)
(*                 call passes the event k;                                *)
(*   Spec          the Cache's run loop with its requests and its checks;  *)
(*                 nobody has registered with GameUpdates, and emitted     *)
(*                 records the events each handled message notified.       *)
(*   SpecHeap      the Cache with its maps as objects behind references,   *)
(*                 to tell a copy of a map from the map itself;            *)
(*   SpecEventSource  the connect loop of the client, the goroutine that   *)
(*                 reads a body, the server and the owner, who receives    *)
(*                 the events and may call Close; FairSpecEventSource      *)
(*                 adds that the client and the server keep going;         *)
(*   SpecParser    the client reading one stream of field lines;           *)
(*   SpecReconnect the client against a server that ends every stream,     *)
(*                 FairSpecReconnect with an owner who keeps receiving;    *)
(*   SpecChecks    check and tryConnect step by step, one goroutine per    *)
(*                 kind of address; FairSpecChecks lets each go on;        *)
(*   SpecCalls     Register, Unregister and Notify called concurrently,    *)
(*                 with the token of n.st;                                 *)
(*   SpecRun       the run loop, its callers and its checks by where they  *)
(*                 wait, with subscribers who never receive; FairSpecRun   *)
(*                 adds the fairness of the scheduler and of select.       *)
(* A check goroutine is one step: tryConnect touches no shared state, so   *)
(* its verdict is drawn when the loop takes the result.                    *)
(***************************************************************************)
EXTENDS Integers, Sequences, FiniteSets, Bags, TLC

VARIABLES
    wait,       \* notifierState.wait: the list of registered channels, front first
    chans,      \* every channel made by Register: [buf, closed]
    nNotify,    \* SpecNotifier: number of Notify calls made so far
    regAt,      \* SpecNotifier: per channel, nNotify when Register returned it
    got,        \* SpecNotifier: per channel, the events its subscriber has received
    unreg,      \* SpecNotifier: the last call, if an Unregister: its channel, the list before
    games,      \* Cache.games: id -> CacheItem
    probes,     \* the running check goroutines: cacheCheckMsg -> how many
    loopPc,     \* Cache.run: "select", or "handled" after one case of the select
    last,       \* the message the run loop handled last (a cacheReq, a result, a Get)
    emitted,    \* the events the last handled message passed to GameUpdates.Notify
    prev,       \* games and probes as they were when the loop took that message
    reply,      \* what the last handled Get sent back on its result channel
    heap,       \* SpecHeap: the maps of the cache as objects, reference -> map
    snap,       \* SpecHeap: the map a caller of Get holds, and what it read in it
    pub,        \* SpecHeap: the CacheItem a subscriber holds, and what it read in it
    ReadyState, \* EventSource.ReadyState
    esPc,       \* receive: where the connect loop stands
    timeout,    \* receive: the local timeout (false before the first attempt)
    lastEventID, \* receive: the local lastEventID, a string as its characters
    retry,      \* receive: the local retry, in milliseconds
    req,        \* the request made last: its Last-Event-ID header, the wait before it
    resOpen,    \* whether a response body is open (res.Body not closed)
    bodyPc,     \* the goroutine reading the body: where it stands
    data,       \* body goroutine: the local data
    eventType,  \* body goroutine: the local eventType
    message,    \* body goroutine: the Message the line scanned last dispatched, if any
    closePc,    \* Close: where the owner's call stands
    closed,     \* whether Close has closed OnOpen, OnMessage, OnError and onClose
    bodyEOFClosed, \* whether receive's deferred close(bodyEOF) has run
    served,     \* the lines the scanner has returned so far, over all responses
    opened,     \* how many of them it had returned when the body being read was opened
    attempted,  \* whether a request has been made
    checks,     \* the goroutines running Cache.check, one for an address
    stChan,     \* Notifier.st: what the channel holds
    calls,      \* the calls of Register, Unregister and Notify under way
    run         \* Cache.run: where the loop, its callers and the checks stand

notifierVars == <<wait, chans, nNotify, regAt, got, unreg>>
cacheVars == <<games, probes, loopPc, last, emitted, prev, reply>>
heapVars == <<heap, snap, pub>>
esVars == <<ReadyState, esPc, timeout, lastEventID, retry, req, resOpen, bodyPc, data,
            eventType, message, closePc, closed, bodyEOFClosed, served, opened, attempted>>
callVars == <<stChan, calls>>
otherVars == <<heapVars, esVars, checks, callVars, run>>
vars == <<wait, chans, nNotify, regAt, got, unreg, games, probes, loopPc, last, emitted, prev, reply,
          heap, snap, pub,
          ReadyState, esPc, timeout, lastEventID, retry, req, resOpen, bodyPc, data,
          eventType, message, closePc, closed, bodyEOFClosed, served, opened, attempted,
          checks, stChan, calls, run>>

----------------------------------------------------------------------------
(* Bounds of the model *)

\* SpecNotifier stops after this many Notify calls.
MaxNotify == 12

\* SpecNotifier: Register is called only during the first MaxRegAt Notify calls.
MaxRegAt == 1

----------------------------------------------------------------------------
(* notifier.go *)

notifierBufSize == 10

\* The subscribers SpecNotifier lets register (each Register makes a new channel).
Subscribers == {1, 2}

\* list.Remove(e): the list without its i-th element.
RemoveAt(s, i) == SubSeq(s, 1, i - 1) \o SubSeq(s, i + 1, Len(s))

\* NewNotifier: an empty list, no channel made yet.
NewNotifier == [wait |-> <<>>, chans |-> <<>>]

\* Register: make(chan, notifierBufSize), PushBack.
Register(w, ch) ==
    [wait |-> Append(w, Len(ch) + 1),
     chans |-> Append(ch, [buf |-> <<>>, closed |-> FALSE])]

\* A channel as an interface{} value: its dynamic type and the channel.
\* Register pushes its chan interface{} into the list; Unregister's parameter
\* is a <-chan interface{}.
AsInterface(dyn, c) == [dyn |-> dyn, ch |-> c]

\* e.Value == c: an interface value equals a value of another type when the
\* dynamic type is identical to that type and the values are equal.
ValueEquals(e, c) ==
    AsInterface("chan interface{}", e) = AsInterface("<-chan interface{}", c)

\* Unregister: remove the first element whose value equals c, if any.
RECURSIVE UnregisterFrom(_, _, _)
UnregisterFrom(w, i, c) ==
    IF i > Len(w) THEN w
    ELSE IF ValueEquals(w[i], c) THEN RemoveAt(w, i)
    ELSE UnregisterFrom(w, i + 1, c)

Unregister(w, c) == UnregisterFrom(w, 1, c)

\* select { case c <- event: ... default: ... }: the send goes through when
\* the buffer has room.
CanSend(ch, c) == Len(ch[c].buf) < notifierBufSize

\* The loop of Notify, standing at the i-th element of the list.  After
\* st.wait.Remove(e) the element's next pointer is nil (container/list clears
\* it), so e.Next() ends the loop: the elements behind a removed one are not
\* visited in this call.
RECURSIVE NotifyFrom(_, _, _, _)
NotifyFrom(w, ch, i, event) ==
    IF i > Len(w) THEN [wait |-> w, chans |-> ch]
    ELSE LET c == w[i] IN
         IF CanSend(ch, c)
         THEN NotifyFrom(w, [ch EXCEPT ![c].buf = Append(@, event)], i + 1, event)
         ELSE [wait |-> RemoveAt(w, i), chans |-> [ch EXCEPT ![c].closed = TRUE]]

Notify(w, ch, event) == NotifyFrom(w, ch, 1, event)

\* Notify once per event of a sequence, in order.
RECURSIVE NotifyAll(_, _, _)
NotifyAll(w, ch, events) ==
    IF events = <<>> THEN [wait |-> w, chans |-> ch]
    ELSE LET st == Notify(w, ch, Head(events))
         IN  NotifyAll(st.wait, st.chans, Tail(events))

----------------------------------------------------------------------------
(* SpecNotifier: the notifier and its subscribers *)

InitNotifier ==
    /\ wait = NewNotifier.wait
    /\ chans = NewNotifier.chans
    /\ nNotify = 0
    /\ regAt = <<>>
    /\ got = <<>>
    /\ unreg = <<>>

DoRegister ==
    /\ Len(chans) < Cardinality(Subscribers)
    /\ nNotify <= MaxRegAt
    /\ LET st == Register(wait, chans) IN
        /\ wait' = st.wait
        /\ chans' = st.chans
    /\ regAt' = Append(regAt, nNotify)
    /\ got' = Append(got, <<>>)
    /\ unreg' = <<>>
    /\ UNCHANGED <<nNotify, cacheVars, otherVars>>

DoUnregister(c) ==
    /\ wait' = Unregister(wait, c)
    /\ unreg' = <<[c |-> c, wait |-> wait]>>
    /\ UNCHANGED <<chans, nNotify, regAt, got, cacheVars, otherVars>>

\* The producer's k-th call is Notify(k).
DoNotify ==
    /\ nNotify < MaxNotify
    /\ LET st == Notify(wait, chans, nNotify + 1) IN
        /\ wait' = st.wait
        /\ chans' = st.chans
    /\ nNotify' = nNotify + 1
    /\ unreg' = <<>>
    /\ UNCHANGED <<regAt, got, cacheVars, otherVars>>

\* A subscriber takes the next event out of its channel.
Receive(c) ==
    /\ chans[c].buf # <<>>
    /\ got' = [got EXCEPT ![c] = Append(@, Head(chans[c].buf))]
    /\ chans' = [chans EXCEPT ![c].buf = Tail(@)]
    /\ unreg' = <<>>
    /\ UNCHANGED <<wait, nNotify, regAt, cacheVars, otherVars>>

----------------------------------------------------------------------------
(* Addresses: net.TCPAddr, net.UDPAddr, NetpuncherAddr *)

TCPAddr(ip, port) ==
    [type |-> "TCPAddr", IP |-> ip, Port |-> port, Net |-> "", Addr |-> "", ID |-> 0]

UDPAddr(ip, port) ==
    [type |-> "UDPAddr", IP |-> ip, Port |-> port, Net |-> "", Addr |-> "", ID |-> 0]

NetpuncherAddr(network, addr, id) ==
    [type |-> "NetpuncherAddr", IP |-> <<>>, Port |-> 0, Net |-> network, Addr |-> addr, ID |-> id]

\* A net.IPAddr, a kind of address shouldSkipAddr has no case for.
IPAddr(ip) ==
    [type |-> "IPAddr", IP |-> ip, Port |-> 0, Net |-> "ip", Addr |-> "", ID |-> 0]

\* The nil net.Addr of a zero CacheItemAddr.
NilAddr ==
    [type |-> "nil", IP |-> <<>>, Port |-> 0, Net |-> "", Addr |-> "", ID |-> 0]

\* net.IP.String of a 4-byte address: dotted decimal.
IPString(ip) ==
    ToString(ip[1]) \o "." \o ToString(ip[2]) \o "." \o ToString(ip[3]) \o "." \o ToString(ip[4])

\* net.Addr.Network
Network(a) ==
    CASE a.type = "TCPAddr" -> "tcp"
      [] a.type = "UDPAddr" -> "udp"
      [] OTHER -> a.Net

\* net.Addr.String: host:port, the host alone for a net.IPAddr, and Addr#ID
\* for a NetpuncherAddr.
String(a) ==
    CASE a.type = "NetpuncherAddr" -> a.Addr \o "#" \o ToString(a.ID)
      [] a.type = "IPAddr" -> IPString(a.IP)
      [] OTHER -> IPString(a.IP) \o ":" \o ToString(a.Port)

cacheAddrKey(a) == Network(a) \o ":" \o String(a)

\* The private blocks of init(), as <<address, prefix length>>; an address is
\* its 4 or 16 bytes.
privateIPBlocks ==
    << <<(<<127, 0, 0, 0>>), 8>>,
       <<(<<10, 0, 0, 0>>), 8>>,
       <<(<<172, 16, 0, 0>>), 12>>,
       <<(<<192, 168, 0, 0>>), 16>>,
       <<(<<169, 254, 0, 0>>), 16>>,
       <<(<<0, 0, 0, 0, 0, 0, 0, 0, 0, 0, 0, 0, 0, 0, 0, 1>>), 128>>,
       <<(<<254, 128, 0, 0, 0, 0, 0, 0, 0, 0, 0, 0, 0, 0, 0, 0>>), 10>>,
       <<(<<252, 0, 0, 0, 0, 0, 0, 0, 0, 0, 0, 0, 0, 0, 0, 0>>), 7>> >>

Pow2(n) == CASE n = 0 -> 1 [] n = 1 -> 2 [] n = 2 -> 4 [] n = 3 -> 8 [] n = 4 -> 16
             [] n = 5 -> 32 [] n = 6 -> 64 [] n = 7 -> 128 [] OTHER -> 256

\* How many bits of the mask of a /bits block fall into byte i.
MaskBits(bits, i) ==
    LET k == bits - 8 * (i - 1) IN IF k < 0 THEN 0 ELSE IF k > 8 THEN 8 ELSE k

\* net.IPNet.Contains: the masked bytes agree (addresses of the block's length).
Contains(block, ip) ==
    /\ Len(ip) = Len(block[1])
    /\ \A i \in 1..Len(ip) :
          LET d == Pow2(8 - MaskBits(block[2], i))
          IN  ip[i] \div d = block[1][i] \div d

\* net.IP.IsGlobalUnicast: a 4-byte or 16-byte address that is not the IPv4
\* broadcast address, unspecified, loopback, multicast or link-local unicast.
IsGlobalUnicast(ip) ==
    IF Len(ip) = 4
    THEN /\ ip # <<255, 255, 255, 255>>
         /\ ip # <<0, 0, 0, 0>>
         /\ ip[1] # 127
         /\ ip[1] \div 16 # 14
         /\ ~(ip[1] = 169 /\ ip[2] = 254)
    ELSE /\ Len(ip) = 16
         /\ \E i \in 1..16 : ip[i] # 0
         /\ ~(ip[16] = 1 /\ \A i \in 1..15 : ip[i] = 0)
         /\ ip[1] # 255
         /\ ~(ip[1] = 254 /\ ip[2] \div 64 = 2)

\* shouldSkipAddr as it would be without the loop over privateIPBlocks.
shouldSkipAddrNoBlocks(addr) ==
    CASE addr.type \in {"TCPAddr", "UDPAddr"} -> ~IsGlobalUnicast(addr.IP)
      [] addr.type = "NetpuncherAddr" -> FALSE
      [] OTHER -> TRUE

\* shouldSkipAddr checks for local addresses that should not be tested.
shouldSkipAddr(addr) ==
    CASE addr.type \in {"TCPAddr", "UDPAddr"} ->
            \/ ~IsGlobalUnicast(addr.IP)
            \/ \E i \in 1..Len(privateIPBlocks) : Contains(privateIPBlocks[i], addr.IP)
      [] addr.type = "NetpuncherAddr" -> FALSE
      [] OTHER -> TRUE

----------------------------------------------------------------------------
(* cache.go: the data *)

ConnectStatusPending == 0
ConnectStatusSuccess == 1
ConnectStatusFailure == 2

\* The game ids and the titles (standing for a LeagueGame's other fields) of
\* the league's events.
GameIDs == {1, 2}
Titles == {"a", "b"}
LeagueGames == [ID : GameIDs, Title : Titles]

\* The addresses of the model: a public TCP endpoint, a loopback one, a UDP
\* endpoint in a private range, a public host of a kind shouldSkipAddr does
\* not know, and a netpuncher target whose rendezvous host looks like loopback.
TcpPublic == TCPAddr(<<8, 8, 8, 8>>, 80)
TcpLoopback == TCPAddr(<<127, 0, 0, 1>>, 80)
UdpPrivate == UDPAddr(<<192, 168, 1, 5>>, 11113)
IpPublic == IPAddr(<<8, 8, 4, 4>>)
Punched == NetpuncherAddr("netpuncher4", "127.0.0.1:11115", 7)

\* The addresses UpdateAddrs is called with for a game (getGameAddresses
\* gives the TCP, UDP and netpuncher ones).
Advertised(id) == IF id = 1 THEN {TcpPublic, TcpLoopback} ELSE {Punched, UdpPrivate, IpPublic}

\* Longest list of games or addresses passed in one request.
MaxList == 2

\* Most check goroutines running at a time.
MaxInFlight == 2

\* SpecEventSource: the server sends this many lines in all.
MaxLines == 3

SeqsUpTo(S, n) == UNION {[1..k -> S] : k \in 0..n}

EmptyMap == [k \in {} |-> NilAddr]

\* m[k] = v, as Go's map assignment.
MapSet(m, k, v) == [x \in DOMAIN m \cup {k} |-> IF x = k THEN v ELSE m[x]]

\* delete(m, k)
MapDelete(m, k) == [x \in DOMAIN m \ {k} |-> m[x]]

\* The zero CacheItemAddr a map read of a missing key gives.
ZeroItemAddr == [Addr |-> NilAddr, Status |-> ConnectStatusPending]

\* Clone creates a deep copy of the cache item.
Clone(g) == [Game |-> g.Game, Addrs |-> [k \in DOMAIN g.Addrs |-> g.Addrs[k]]]

\* copyState copies the cache state.
copyState(gm) == [id \in DOMAIN gm |-> Clone(gm[id])]

\* The CacheUpdate notifyGameUpdate broadcasts; G is <<item>>, or <<>> for nil.
notifyGameUpdate(gm, id) ==
    IF id \in DOMAIN gm
    THEN [ID |-> id, G |-> <<Clone(gm[id])>>]
    ELSE [ID |-> id, G |-> <<>>]

\* updateGame as it would be if it stored a fresh CacheItem every time,
\* losing the address map of a game already cached.
updateGameFresh(gm, game) ==
    MapSet(gm, game.ID, [Game |-> game, Addrs |-> EmptyMap])

\* The closure updateGame of run.
updateGame(gm, game) ==
    LET g == IF game.ID \in DOMAIN gm
             THEN gm[game.ID]
             ELSE [Game |-> game, Addrs |-> EmptyMap]
    IN  MapSet(gm, game.ID, [g EXCEPT !.Game = game])

\* The first loop of reqUpdateAll as it would be if it notified only about
\* games that are new or whose payload differs from the cached one.
RECURSIVE UpdateAllLoopChangedOnly(_, _, _)
UpdateAllLoopChangedOnly(gm, list, events) ==
    IF list = <<>> THEN [games |-> gm, events |-> events]
    ELSE LET gm2 == updateGame(gm, Head(list))
         IN  UpdateAllLoopChangedOnly(gm2, Tail(list),
                IF gm2 = gm THEN events
                ELSE Append(events, notifyGameUpdate(gm2, Head(list).ID)))

\* reqUpdateAll, first loop: update and notify game by game.  The result is
\* the games and the events notified.
RECURSIVE UpdateAllLoop(_, _, _)
UpdateAllLoop(gm, list, events) ==
    IF list = <<>> THEN [games |-> gm, events |-> events]
    ELSE LET gm2 == updateGame(gm, Head(list))
         IN  UpdateAllLoop(gm2, Tail(list),
                           Append(events, notifyGameUpdate(gm2, Head(list).ID)))

\* The second loop of reqUpdateAll as it would be if it notified before
\* deleting: the event then still carries the game.
RECURSIVE DeleteUnseenNotifyFirst(_, _, _)
DeleteUnseenNotifyFirst(gm, order, events) ==
    IF order = <<>> THEN [games |-> gm, events |-> events]
    ELSE DeleteUnseenNotifyFirst(MapDelete(gm, Head(order)), Tail(order),
                                 Append(events, notifyGameUpdate(gm, Head(order))))

\* reqUpdateAll, second loop: delete the games that weren't updated, in the
\* order `order` in which the map iteration meets them.
RECURSIVE DeleteUnseen(_, _, _)
DeleteUnseen(gm, order, events) ==
    IF order = <<>> THEN [games |-> gm, events |-> events]
    ELSE LET gm2 == MapDelete(gm, Head(order))
         IN  DeleteUnseen(gm2, Tail(order),
                          Append(events, notifyGameUpdate(gm2, Head(order))))

\* The ids of a list of games (the keys of `seen`).
SeenIDs(list) == {list[i].ID : i \in 1..Len(list)}

\* The orders in which a map iteration can meet the elements of S.
Orders(S) ==
    {o \in [1..Cardinality(S) -> S] : \A i, j \in 1..Cardinality(S) : i # j => o[i] # o[j]}

\* The loop of reqUpdateAddrs as it would be without the lookup of the key:
\* every address that is not skipped is set to Pending and checked.
RECURSIVE UpdateAddrsLoopNoLookup(_, _, _)
UpdateAddrsLoopNoLookup(m, addrs, started) ==
    IF addrs = <<>> THEN [Addrs |-> m, started |-> started]
    ELSE LET addr == Head(addrs) IN
         IF ~shouldSkipAddr(addr)
         THEN UpdateAddrsLoopNoLookup(
                 MapSet(m, cacheAddrKey(addr), [Addr |-> addr, Status |-> ConnectStatusPending]),
                 Tail(addrs), Append(started, addr))
         ELSE UpdateAddrsLoopNoLookup(m, Tail(addrs), started)

\* reqUpdateAddrs, the loop over addrs: the address map and the checks started.
RECURSIVE UpdateAddrsLoop(_, _, _)
UpdateAddrsLoop(m, addrs, started) ==
    IF addrs = <<>> THEN [Addrs |-> m, started |-> started]
    ELSE LET addr == Head(addrs) IN
         IF ~shouldSkipAddr(addr) /\ cacheAddrKey(addr) \notin DOMAIN m
         THEN UpdateAddrsLoop(
                 MapSet(m, cacheAddrKey(addr), [Addr |-> addr, Status |-> ConnectStatusPending]),
                 Tail(addrs), Append(started, addr))
         ELSE UpdateAddrsLoop(m, Tail(addrs), started)

\* reqUpdateAddrs as it would be if it made an entry for a game it does not
\* know instead of dropping the request.
UpdateAddrsReqNoDrop(gm, id, addrs) ==
    LET old == IF id \in DOMAIN gm THEN gm[id]
               ELSE [Game |-> [ID |-> id, Title |-> ""], Addrs |-> EmptyMap]
        r == UpdateAddrsLoop(old.Addrs, addrs, <<>>)
    IN  [games |-> MapSet(gm, id, [old EXCEPT !.Addrs = r.Addrs]), started |-> r.started]

\* reqUpdateAddrs: drop request for unknown games.
UpdateAddrsReq(gm, id, addrs) ==
    IF id \in DOMAIN gm
    THEN LET r == UpdateAddrsLoop(gm[id].Addrs, addrs, <<>>)
         IN  [games |-> [gm EXCEPT ![id].Addrs = r.Addrs], started |-> r.started]
    ELSE [games |-> gm, started |-> <<>>]

\* reqDelete
DeleteReq(gm, id) ==
    LET gm2 == MapDelete(gm, id)
    IN  [games |-> gm2, events |-> <<notifyGameUpdate(gm2, id)>>]

\* The case checkResultChan as it would be without the lookup of the game:
\* a result for an unknown id makes an entry for it.
CheckResultNoDrop(gm, res) ==
    LET key == cacheAddrKey(res.addr)
        g == IF res.id \in DOMAIN gm THEN gm[res.id]
             ELSE [Game |-> [ID |-> res.id, Title |-> ""], Addrs |-> EmptyMap]
        a == IF key \in DOMAIN g.Addrs THEN g.Addrs[key] ELSE ZeroItemAddr
        gm2 == MapSet(gm, res.id,
                      [g EXCEPT !.Addrs = MapSet(@, key, [a EXCEPT !.Status = res.status])])
    IN  [games |-> gm2, events |-> <<notifyGameUpdate(gm2, res.id)>>]

\* The case checkResultChan as it would be if it notified before storing the
\* status: the event then carries the status the address had.
CheckResultNotifyFirst(gm, res) ==
    IF res.id \in DOMAIN gm
    THEN LET key == cacheAddrKey(res.addr)
             a == IF key \in DOMAIN gm[res.id].Addrs
                  THEN gm[res.id].Addrs[key] ELSE ZeroItemAddr
             gm2 == [gm EXCEPT ![res.id].Addrs =
                         MapSet(@, key, [a EXCEPT !.Status = res.status])]
         IN  [games |-> gm2, events |-> <<notifyGameUpdate(gm, res.id)>>]
    ELSE [games |-> gm, events |-> <<>>]

\* case res := <-c.checkResultChan
CheckResult(gm, res) ==
    IF res.id \in DOMAIN gm
    THEN LET key == cacheAddrKey(res.addr)
             a == IF key \in DOMAIN gm[res.id].Addrs
                  THEN gm[res.id].Addrs[key] ELSE ZeroItemAddr
             gm2 == [gm EXCEPT ![res.id].Addrs =
                         MapSet(@, key, [a EXCEPT !.Status = res.status])]
         IN  [games |-> gm2, events |-> <<notifyGameUpdate(gm2, res.id)>>]
    ELSE [games |-> gm, events |-> <<>>]

\* The bag of the checks started for game id.
RECURSIVE StartedBag(_, _)
StartedBag(id, started) ==
    IF started = <<>> THEN EmptyBag
    ELSE SetToBag({[id |-> id, addr |-> Head(started)]}) (+) StartedBag(id, Tail(started))

----------------------------------------------------------------------------
(* cache.go: the run loop *)

NoMsg == [type |-> "none", id |-> 0, payload |-> <<>>]
NoReply == <<>>
NoPrev == [games |-> <<>>, probes |-> EmptyBag]

\* NewCache
InitCache ==
    /\ games = <<>>
    /\ probes = EmptyBag
    /\ loopPc = "select"
    /\ last = NoMsg
    /\ emitted = <<>>
    /\ prev = NoPrev
    /\ reply = NoReply

\* What every case of the select does at its end: the events have gone
\* through GameUpdates.Notify, and the loop has handled msg.
Handled(msg, events) ==
    /\ loopPc' = "handled"
    /\ last' = msg
    /\ emitted' = events
    /\ prev' = [games |-> games, probes |-> probes]
    /\ LET st == NotifyAll(wait, chans, events) IN
        /\ wait' = st.wait
        /\ chans' = st.chans
    /\ UNCHANGED <<nNotify, regAt, got, unreg, otherVars>>

\* UpdateAllGames(list) and the loop's case reqUpdateAll.
UpdateAllGames(list) ==
    /\ loopPc = "select"
    /\ LET r == UpdateAllLoop(games, list, <<>>) IN
       \E order \in Orders(DOMAIN r.games \ SeenIDs(list)) :
          LET d == DeleteUnseen(r.games, order, r.events) IN
            /\ games' = d.games
            /\ Handled([type |-> "reqUpdateAll", id |-> 0, payload |-> list], d.events)
    /\ UNCHANGED <<probes, reply>>

\* UpdateGame(game) and the loop's case reqUpdateSingle.
UpdateGame(game) ==
    /\ loopPc = "select"
    /\ LET gm2 == updateGame(games, game) IN
        /\ games' = gm2
        /\ Handled([type |-> "reqUpdateSingle", id |-> game.ID, payload |-> game],
                   <<notifyGameUpdate(gm2, game.ID)>>)
    /\ UNCHANGED <<probes, reply>>

\* UpdateAddrs(id, addrs) and the loop's case reqUpdateAddrs; each address
\* put into the map starts a goroutine running check.
UpdateAddrs(id, addrs) ==
    /\ loopPc = "select"
    /\ LET r == UpdateAddrsReq(games, id, addrs) IN
        /\ BagCardinality(probes) + Len(r.started) <= MaxInFlight
        /\ games' = r.games
        /\ probes' = probes (+) StartedBag(id, r.started)
        /\ Handled([type |-> "reqUpdateAddrs", id |-> id, payload |-> addrs], <<>>)
    /\ UNCHANGED reply

\* DeleteGame(id) and the loop's case reqDelete.
DeleteGame(id) ==
    /\ loopPc = "select"
    /\ LET r == DeleteReq(games, id) IN
        /\ games' = r.games
        /\ Handled([type |-> "reqDelete", id |-> id, payload |-> <<>>], r.events)
    /\ UNCHANGED <<probes, reply>>

\* check: a running check ends with tryConnect's verdict and hands its
\* message to the loop, which takes the case checkResultChan.
Check(p, ok) ==
    /\ loopPc = "select"
    /\ BagIn(p, probes)
    /\ LET res == [id |-> p.id, addr |-> p.addr,
                   status |-> IF ok THEN ConnectStatusSuccess ELSE ConnectStatusFailure]
           r == CheckResult(games, res)
       IN
        /\ games' = r.games
        /\ probes' = probes (-) SetToBag({p})
        /\ Handled([type |-> "checkResult", id |-> res.id,
                    payload |-> [addr |-> res.addr, status |-> res.status]], r.events)
    /\ UNCHANGED reply

\* Get and the loop's case requestGamesChan.
Get ==
    /\ loopPc = "select"
    /\ reply' = <<copyState(games)>>
    /\ Handled([type |-> "Get", id |-> 0, payload |-> <<>>], <<>>)
    /\ UNCHANGED <<games, probes>>

\* The loop is back at its select.
LoopBack ==
    /\ loopPc = "handled"
    /\ loopPc' = "select"
    /\ last' = NoMsg
    /\ emitted' = <<>>
    /\ prev' = NoPrev
    /\ reply' = NoReply
    /\ UNCHANGED <<games, probes, notifierVars, otherVars>>

----------------------------------------------------------------------------
(* SpecHeap: the cache's maps as objects.  A Go map value is a reference:  *)
(* c.games is one map object, every CacheItem.Addrs another.  heap gives    *)
(* each object in use its content; a games map holds, per id, the item's   *)
(* Game and the reference of its Addrs.  The handlers compute as above on   *)
(* the content and write the outcome through the references the code       *)
(* writes through.  Objects nothing refers to any more are collected.      *)

\* The reference of c.games, made by NewCache.
Root == 0

\* The games this specification's requests name (one is enough to have the
\* maps made, written, copied and dropped), and their ids.
HeapGames == {g \in LeagueGames : g.ID = 1 /\ g.Title = "a"}
HeapIDs == {g.ID : g \in HeapGames}

\* make(map...): a reference not in use.
NewRef(h) == CHOOSE r \in 1..(Cardinality(DOMAIN h) + 1) : r \notin DOMAIN h

\* What one reads through a CacheItem and through a games map.
DerefItem(h, it) == [Game |-> it.Game, Addrs |-> h[it.Addrs]]
DerefGames(h, r) == [id \in DOMAIN h[r] |-> DerefItem(h, h[r][id])]

\* Clone as it would be with g2 := *g alone: the copy's Addrs is the map of
\* the original.
CloneShallow(h, it) == [heap |-> h, item |-> it]

\* Clone: g2 := *g, then a new map for g2.Addrs filled entry by entry.
CloneH(h, it) ==
    LET r == NewRef(h)
    IN  [heap |-> (r :> h[it.Addrs]) @@ h,
         item |-> [Game |-> it.Game, Addrs |-> r]]

\* copyState, the loop over c.games: the ids still to copy into the map at ref.
RECURSIVE copyStateLoop(_, _, _)
copyStateLoop(h, ref, ids) ==
    IF ids = {} THEN h
    ELSE LET id == CHOOSE x \in ids : TRUE
             c == CloneH(h, h[Root][id])
         IN  copyStateLoop((ref :> ((id :> c.item) @@ c.heap[ref])) @@ c.heap, ref, ids \ {id})

\* copyState: a new games map holding a clone of every item.
copyStateH(h) ==
    LET ref == NewRef(h)
    IN  [heap |-> copyStateLoop((ref :> <<>>) @@ h, ref, DOMAIN h[Root]), ref |-> ref]

\* notifyGameUpdate: the G of the CacheUpdate, <<clone>> or <<>> for nil.
notifyGameUpdateH(h, id) ==
    IF id \in DOMAIN h[Root]
    THEN LET c == CloneH(h, h[Root][id]) IN [heap |-> c.heap, G |-> <<c.item>>]
    ELSE [heap |-> h, G |-> <<>>]

\* The writes of a handler that leaves c.games reading gm: an id that stays
\* keeps its Addrs map, which is written in place; a new id gets a new map.
RECURSIVE StoreLoop(_, _, _)
StoreLoop(h, gm, ids) ==
    IF ids = {} THEN h
    ELSE LET id == CHOOSE x \in ids : TRUE
             ref == IF id \in DOMAIN h[Root] THEN h[Root][id].Addrs ELSE NewRef(h)
             item == [Game |-> gm[id].Game, Addrs |-> ref]
         IN  StoreLoop((ref :> gm[id].Addrs) @@ (Root :> ((id :> item) @@ h[Root])) @@ h,
                       gm, ids \ {id})

StoreGames(h, gm) ==
    StoreLoop((Root :> [id \in DOMAIN h[Root] \cap DOMAIN gm |-> h[Root][id]]) @@ h,
              gm, DOMAIN gm)

\* A holder of a CacheUpdate's item, with what the item read when published.
Hold(h, G) ==
    IF G = <<>> THEN <<>> ELSE <<[item |-> G[1], seen |-> DerefItem(h, G[1])]>>

\* The ids of a map in increasing order.
SortedIDs(S) ==
    CHOOSE o \in [1..Cardinality(S) -> S] : \A i, j \in 1..Cardinality(S) : i < j => o[i] < o[j]

\* The Addrs references of the games map at ref, in the order of the ids.
AddrsRefs(h, ref) ==
    LET o == SortedIDs(DOMAIN h[ref]) IN [i \in 1..Len(o) |-> h[ref][o[i]].Addrs]

\* The references reachable from c.games, from the snapshot and the item held.
Reach(h, sn, pb) ==
    <<Root>> \o AddrsRefs(h, Root)
             \o (IF sn = <<>> THEN <<>> ELSE <<sn[1].ref>> \o AddrsRefs(h, sn[1].ref))
             \o (IF pb = <<>> THEN <<>> ELSE <<pb[1].item.Addrs>>)

\* The garbage collector: the objects nothing refers to are dropped, and the
\* others moved to the references Root, Root + 1, .. in the order of Reach
\* (a reference is only ever compared with another, so moving is not seen).
Collect(h, sn, pb) ==
    LET rs == Reach(h, sn, pb)
        to(r) == Root - 1 + CHOOSE i \in 1..Len(rs) : rs[i] = r /\ \A j \in 1..(i - 1) : rs[j] # r
        moved(ref) == [id \in DOMAIN h[ref] |-> [h[ref][id] EXCEPT !.Addrs = to(@)]]
        gamesRefs == {Root} \cup {sn[i].ref : i \in 1..Len(sn)}
    IN  [heap |-> [n \in {to(rs[i]) : i \in 1..Len(rs)} |->
                      LET r == CHOOSE x \in DOMAIN h : x \in {rs[i] : i \in 1..Len(rs)} /\ to(x) = n
                      IN  IF r \in gamesRefs THEN moved(r) ELSE h[r]],
         snap |-> [i \in 1..Len(sn) |-> [sn[i] EXCEPT !.ref = to(@)]],
         pub |-> [i \in 1..Len(pb) |-> [pb[i] EXCEPT !.item.Addrs = to(@)]]]

InitHeap ==
    /\ heap = [r \in {Root} |-> <<>>]
    /\ snap = <<>>
    /\ pub = <<>>

\* The end of a handler whose notifications left the item G at heap h: a
\* subscriber keeps the item, or goes on holding the one it has.
Published(h, G) ==
    /\ \E keep \in BOOLEAN :
          LET c == Collect(h, snap, IF keep /\ G # <<>> THEN Hold(h, G) ELSE pub) IN
            /\ heap' = c.heap
            /\ snap' = c.snap
            /\ pub' = c.pub
    /\ UNCHANGED <<notifierVars, games, loopPc, last, emitted, prev, reply, esVars, checks, callVars, run>>

\* reqUpdateAll, first loop, on the heap; keep counts down to the game whose
\* CacheUpdate the subscriber keeps.
RECURSIVE UpdateAllLoopH(_, _, _, _)
UpdateAllLoopH(h, list, keep, held) ==
    IF list = <<>> THEN [heap |-> h, held |-> held]
    ELSE LET h1 == StoreGames(h, updateGame(DerefGames(h, Root), Head(list)))
             n == notifyGameUpdateH(h1, Head(list).ID)
         IN  UpdateAllLoopH(n.heap, Tail(list), keep - 1,
                            IF keep = 1 THEN Hold(n.heap, n.G) ELSE held)

HeapUpdateAllGames(list) ==
    /\ \E keep \in 0..Len(list) :
          LET r == UpdateAllLoopH(heap, list, keep, pub)
              gm == DerefGames(r.heap, Root)
          IN  \E order \in Orders(DOMAIN gm \ SeenIDs(list)) :
                 LET c == Collect(StoreGames(r.heap, DeleteUnseen(gm, order, <<>>).games),
                                  snap, r.held)
                 IN  /\ heap' = c.heap
                     /\ snap' = c.snap
                     /\ pub' = c.pub
    /\ UNCHANGED <<probes, notifierVars, games, loopPc, last, emitted, prev, reply, esVars, checks, callVars, run>>

HeapUpdateGame(game) ==
    /\ LET h1 == StoreGames(heap, updateGame(DerefGames(heap, Root), game))
           n == notifyGameUpdateH(h1, game.ID)
       IN  Published(n.heap, n.G)
    /\ UNCHANGED probes

HeapUpdateAddrs(id, addrs) ==
    /\ LET r == UpdateAddrsReq(DerefGames(heap, Root), id, addrs) IN
        /\ BagCardinality(probes) + Len(r.started) <= MaxInFlight
        /\ probes' = probes (+) StartedBag(id, r.started)
        /\ Published(StoreGames(heap, r.games), <<>>)

HeapDeleteGame(id) ==
    /\ LET h1 == StoreGames(heap, DeleteReq(DerefGames(heap, Root), id).games)
           n == notifyGameUpdateH(h1, id)
       IN  Published(n.heap, n.G)
    /\ UNCHANGED probes

HeapCheck(p, ok) ==
    /\ BagIn(p, probes)
    /\ LET res == [id |-> p.id, addr |-> p.addr,
                   status |-> IF ok THEN ConnectStatusSuccess ELSE ConnectStatusFailure]
           gm == DerefGames(heap, Root)
           h1 == StoreGames(heap, CheckResult(gm, res).games)
           n == IF res.id \in DOMAIN gm THEN notifyGameUpdateH(h1, res.id)
                ELSE [heap |-> h1, G |-> <<>>]
       IN  Published(n.heap, n.G)
    /\ probes' = probes (-) SetToBag({p})

\* Get: the caller holds the map copyState made.
HeapGet ==
    /\ LET s == copyStateH(heap)
           c == Collect(s.heap, <<[ref |-> s.ref, seen |-> DerefGames(s.heap, s.ref)]>>, pub)
       IN
        /\ heap' = c.heap
        /\ snap' = c.snap
        /\ pub' = c.pub
    /\ UNCHANGED <<probes, notifierVars, games, loopPc, last, emitted, prev, reply, esVars, checks, callVars, run>>

----------------------------------------------------------------------------
(* eventsource.go.  A string is the sequence of its characters.  The owner *)
(* is one goroutine: it receives from OnOpen, OnMessage and OnError until   *)
(* it calls Close.  The server decides how each request ends and what the   *)
(* body holds, line by line.                                                *)

CONNECTING == 0
OPEN == 1
CLOSED == 2

DefaultRetry == 3000

\* The lines the server sends: blank, id with a value, id without one, retry
\* with two values, with a sign, with a value of 33 bits, and data.
Lines ==
    { <<>>,
      <<"i", "d", ":", " ", "7">>,
      <<"i", "d">>,
      <<"r", "e", "t", "r", "y", ":", " ", "1">>,
      <<"r", "e", "t", "r", "y", ":", "2", "0">>,
      <<"r", "e", "t", "r", "y", ":", " ", "-", "1">>,
      <<"r", "e", "t", "r", "y", ":", "4", "2", "9", "4", "9", "6", "7", "2", "9", "6">>,
      <<"d", "a", "t", "a", ":", " ", "a">> }

\* The lines of a stream that exercise the fields of a message: blank, data
\* with a value, without one, without the space, event, a comment, an unknown
\* field, id.
ParserLines ==
    { <<>>,
      <<"d", "a", "t", "a", ":", " ", "a">>,
      <<"d", "a", "t", "a">>,
      <<"d", "a", "t", "a", ":", "b">>,
      <<"e", "v", "e", "n", "t", ":", " ", "e">>,
      <<":", " ", "c">>,
      <<"x", ":", " ", "1">>,
      <<"i", "d", ":", " ", "7">> }

\* strings.TrimSuffix that trims nothing.
Untrimmed(str) == str

\* strings.SplitN(line, ":", 2): the parts before and after the first colon,
\* or the line alone when it has none.
RECURSIVE SplitFrom(_, _)
SplitFrom(line, i) ==
    IF i > Len(line) THEN <<line>>
    ELSE IF line[i] = ":" THEN <<SubSeq(line, 1, i - 1), SubSeq(line, i + 1, Len(line))>>
    ELSE SplitFrom(line, i + 1)

SplitN(line) == SplitFrom(line, 1)

\* strings.TrimPrefix(s, " ")
TrimPrefix(str) == IF str # <<>> /\ Head(str) = " " THEN Tail(str) ELSE str

\* strings.TrimSuffix(s, "\n")
TrimSuffix(str) ==
    IF str # <<>> /\ str[Len(str)] = "\n" THEN SubSeq(str, 1, Len(str) - 1) ELSE str

Digits == {"0", "1", "2", "3", "4", "5", "6", "7", "8", "9"}

DigitValue(c) ==
    CASE c = "0" -> 0 [] c = "1" -> 1 [] c = "2" -> 2 [] c = "3" -> 3 [] c = "4" -> 4
      [] c = "5" -> 5 [] c = "6" -> 6 [] c = "7" -> 7 [] c = "8" -> 8 [] c = "9" -> 9

\* The digits of 1<<32 - 1, the largest value of 32 bits.
MaxUint32 == <<"4", "2", "9", "4", "9", "6", "7", "2", "9", "5">>

RECURSIVE StripZeros(_)
StripZeros(str) == IF str # <<>> /\ Head(str) = "0" THEN StripZeros(Tail(str)) ELSE str

\* Whether the digits a stand for a value above that of the digits b, both
\* without leading zeros.
RECURSIVE Above(_, _)
Above(a, b) ==
    IF Len(a) # Len(b) THEN Len(a) > Len(b)
    ELSE IF a = <<>> THEN FALSE
    ELSE IF Head(a) # Head(b) THEN DigitValue(Head(a)) > DigitValue(Head(b))
    ELSE Above(Tail(a), Tail(b))

RECURSIVE Value(_, _)
Value(str, acc) == IF str = <<>> THEN acc ELSE Value(Tail(str), acc * 10 + DigitValue(Head(str)))

\* strconv.ParseUint(value, 10, 32): <<r>>, or <<>> for an error (no digit,
\* another character, a value of more than 32 bits).
ParseUint(value) ==
    IF value = <<>> \/ \E i \in 1..Len(value) : value[i] \notin Digits THEN <<>>
    ELSE IF Above(StripZeros(value), MaxUint32) THEN <<>>
    ELSE <<Value(value, 0)>>

\* The body goroutine's variables after a line, and the Message to dispatch
\* (<<>> when there is none), as the loop over scanner.Scan has it, but with
\* the retry field ignored.
ScanLineNoRetry(st, line) ==
    LET blank == line = <<>>
        out == IF blank /\ st.data # <<>>
               THEN <<[EventType |-> st.eventType, Data |-> TrimSuffix(st.data),
                       LastEventID |-> st.lastEventID]>>
               ELSE <<>>
        st1 == IF blank THEN [st EXCEPT !.data = <<>>, !.eventType = <<>>] ELSE st
        parts == SplitN(line)
        value == IF Len(parts) > 1 THEN TrimPrefix(parts[2]) ELSE <<>>
        st2 == CASE parts[1] = <<>> -> st1
                 [] parts[1] = <<"e", "v", "e", "n", "t">> -> [st1 EXCEPT !.eventType = value]
                 [] parts[1] = <<"d", "a", "t", "a">> -> [st1 EXCEPT !.data = @ \o value \o <<"\n">>]
                 [] parts[1] = <<"i", "d">> -> [st1 EXCEPT !.lastEventID = value]
                 [] OTHER -> st1
    IN  [st |-> st2, out |-> out]

\* The body of the loop over scanner.Scan for one line: the body goroutine's
\* variables after it, and the Message to dispatch (<<>> when there is none).
ScanLine(st, line) ==
    LET blank == line = <<>>
        out == IF blank /\ st.data # <<>>
               THEN <<[EventType |-> st.eventType, Data |-> TrimSuffix(st.data),
                       LastEventID |-> st.lastEventID]>>
               ELSE <<>>
        st1 == IF blank THEN [st EXCEPT !.data = <<>>, !.eventType = <<>>] ELSE st
        parts == SplitN(line)
        value == IF Len(parts) > 1 THEN TrimPrefix(parts[2]) ELSE <<>>
        st2 == CASE parts[1] = <<>> -> st1
                 [] parts[1] = <<"e", "v", "e", "n", "t">> -> [st1 EXCEPT !.eventType = value]
                 [] parts[1] = <<"d", "a", "t", "a">> -> [st1 EXCEPT !.data = @ \o value \o <<"\n">>]
                 [] parts[1] = <<"i", "d">> -> [st1 EXCEPT !.lastEventID = value]
                 [] parts[1] = <<"r", "e", "t", "r", "y">> ->
                       IF ParseUint(value) # <<>>
                       THEN [st1 EXCEPT !.retry = ParseUint(value)[1]] ELSE st1
                 [] OTHER -> st1
    IN  [st |-> st2, out |-> out]

\* The request receive builds: the Last-Event-ID header when lastEventID is
\* not empty; waited is the time.After it was made after, <<>> for none.
NewRequest(id, waited) ==
    [header |-> IF id # <<>> THEN <<id>> ELSE <<>>, waited |-> waited]

NoRequest == [header |-> <<>>, waited |-> <<>>]

\* New
InitEventSource ==
    /\ ReadyState = CONNECTING
    /\ esPc = "for"
    /\ timeout = FALSE
    /\ lastEventID = <<>>
    /\ retry = DefaultRetry
    /\ req = NoRequest
    /\ resOpen = FALSE
    /\ bodyPc = "none"
    /\ data = <<>>
    /\ eventType = <<>>
    /\ message = <<>>
    /\ closePc = "idle"
    /\ closed = FALSE
    /\ bodyEOFClosed = FALSE
    /\ served = <<>>
    /\ opened = 0
    /\ attempted = FALSE

nonEsVars == <<notifierVars, cacheVars, heapVars, checks, callVars, run>>

\* The top of a for loop that goes to the select whatever timeout is.
LoopTopAlwaysWaits ==
    /\ esPc = "for"
    /\ ReadyState' = CONNECTING
    /\ esPc' = "wait"
    /\ UNCHANGED <<timeout, req, attempted, lastEventID, retry, resOpen, bodyPc, data, eventType,
                   message, closePc, closed, bodyEOFClosed, served, opened, nonEsVars>>

\* The top of a for loop that leaves ReadyState as it is.
LoopTopKeepsReadyState ==
    /\ esPc = "for"
    /\ IF timeout
       THEN /\ esPc' = "wait"
            /\ UNCHANGED <<timeout, req, attempted>>
       ELSE /\ esPc' = "Do"
            /\ timeout' = TRUE
            /\ req' = NewRequest(lastEventID, <<>>)
            /\ attempted' = TRUE
    /\ UNCHANGED <<ReadyState, lastEventID, retry, resOpen, bodyPc, data, eventType, message,
                   closePc, closed, bodyEOFClosed, served, opened, nonEsVars>>

\* The top of the for loop: with timeout set the loop goes to its select,
\* otherwise it makes the request at once.
LoopTop ==
    /\ esPc = "for"
    /\ ReadyState' = CONNECTING
    /\ IF timeout
       THEN /\ esPc' = "wait"
            /\ UNCHANGED <<timeout, req, attempted>>
       ELSE /\ esPc' = "Do"
            /\ timeout' = TRUE
            /\ req' = NewRequest(lastEventID, <<>>)
            /\ attempted' = TRUE
    /\ UNCHANGED <<lastEventID, retry, resOpen, bodyPc, data, eventType, message, closePc, closed,
                   bodyEOFClosed, served, opened, nonEsVars>>

\* case <-time.After(retry ms): the request is made.
RetryElapsed ==
    /\ esPc = "wait"
    /\ esPc' = "Do"
    /\ timeout' = TRUE
    /\ req' = NewRequest(lastEventID, <<retry>>)
    /\ attempted' = TRUE
    /\ UNCHANGED <<ReadyState, lastEventID, retry, resOpen, bodyPc, data, eventType, message, closePc,
                   closed, bodyEOFClosed, served, opened, nonEsVars>>

\* client.Do returns: an error, a response of another content type (its body
\* is left open), or an event stream.
Do(outcome) ==
    /\ esPc = "Do"
    /\ CASE outcome = "error" ->
              /\ esPc' = "OnError"
              /\ UNCHANGED <<ReadyState, resOpen>>
         [] outcome = "content-type" ->
              /\ esPc' = "OnError"
              /\ resOpen' = TRUE
              /\ UNCHANGED ReadyState
         [] outcome = "stream" ->
              /\ esPc' = "OnOpen"
              /\ resOpen' = TRUE
              /\ ReadyState' = OPEN
    /\ UNCHANGED <<timeout, lastEventID, retry, req, bodyPc, data, eventType, message, closePc, closed,
                   bodyEOFClosed, served, opened, attempted, nonEsVars>>

\* The owner receives the loop's error: es.OnError <- err; continue.
ReceiveOnError ==
    /\ closePc = "idle"
    /\ esPc = "OnError"
    /\ esPc' = "for"
    /\ UNCHANGED <<ReadyState, timeout, lastEventID, retry, req, resOpen, bodyPc, data, eventType,
                   message, closePc, closed, bodyEOFClosed, served, opened, attempted, nonEsVars>>

\* The owner receives from OnOpen: the loop starts the goroutine reading the
\* body and goes to its select.
ReceiveOnOpen ==
    /\ closePc = "idle"
    /\ esPc = "OnOpen"
    /\ esPc' = "select"
    /\ bodyPc' = "Scan"
    /\ data' = <<>>
    /\ eventType' = <<>>
    /\ opened' = Len(served)
    /\ UNCHANGED <<ReadyState, timeout, lastEventID, retry, req, resOpen, message, closePc, closed,
                   bodyEOFClosed, served, attempted, nonEsVars>>

\* scanner.Scan returns a line.
Scan(line) ==
    /\ bodyPc = "Scan"
    /\ resOpen
    /\ Len(served) < MaxLines
    /\ LET r == ScanLine([data |-> data, eventType |-> eventType,
                          lastEventID |-> lastEventID, retry |-> retry], line)
       IN
        /\ data' = r.st.data
        /\ eventType' = r.st.eventType
        /\ lastEventID' = r.st.lastEventID
        /\ retry' = r.st.retry
        /\ message' = r.out
        /\ bodyPc' = IF r.out # <<>> THEN "OnMessage" ELSE "Scan"
    /\ served' = Append(served, line)
    /\ UNCHANGED <<ReadyState, esPc, timeout, req, resOpen, closePc, closed, bodyEOFClosed,
                   opened, attempted, nonEsVars>>

\* scanner.Scan returns false: the stream has ended (err is nil), or the read
\* failed, as it does once the body is closed.
ScanEnd(err) ==
    /\ bodyPc = "Scan"
    /\ ~resOpen => err
    /\ bodyPc' = IF err THEN "OnError" ELSE "bodyEOF"
    /\ UNCHANGED <<ReadyState, esPc, timeout, lastEventID, retry, req, resOpen, data, eventType,
                   message, closePc, closed, bodyEOFClosed, served, opened, attempted, nonEsVars>>

\* The owner receives the Message.
ReceiveOnMessage ==
    /\ closePc = "idle"
    /\ bodyPc = "OnMessage"
    /\ bodyPc' = "Scan"
    /\ UNCHANGED <<ReadyState, esPc, timeout, lastEventID, retry, req, resOpen, data, eventType,
                   message, closePc, closed, bodyEOFClosed, served, opened, attempted, nonEsVars>>

\* The owner receives the scanner's error.
ReceiveBodyError ==
    /\ closePc = "idle"
    /\ bodyPc = "OnError"
    /\ bodyPc' = "bodyEOF"
    /\ UNCHANGED <<ReadyState, esPc, timeout, lastEventID, retry, req, resOpen, data, eventType,
                   message, closePc, closed, bodyEOFClosed, served, opened, attempted, nonEsVars>>

\* case <-bodyEOF: res.Body.Close(), and the loop goes round.
BodyEOF ==
    /\ esPc = "select"
    /\ bodyPc = "bodyEOF"
    /\ esPc' = "for"
    /\ bodyPc' = "none"
    /\ resOpen' = FALSE
    /\ UNCHANGED <<ReadyState, timeout, lastEventID, retry, req, data, eventType, message, closePc,
                   closed, bodyEOFClosed, served, opened, attempted, nonEsVars>>

\* The owner calls Close, which starts with es.onClose <- true.
CallClose ==
    /\ closePc = "idle"
    /\ closePc' = "onClose"
    /\ UNCHANGED <<ReadyState, esPc, timeout, lastEventID, retry, req, resOpen, bodyPc, data,
                   eventType, message, closed, bodyEOFClosed, served, opened, attempted, nonEsVars>>

\* case <-es.onClose, in either select of the loop: the send of Close goes
\* through; the loop closes the body it has and returns, which closes bodyEOF.
OnClose ==
    /\ closePc = "onClose"
    /\ esPc \in {"wait", "select"}
    /\ closePc' = "closing"
    /\ esPc' = "return"
    /\ resOpen' = IF esPc = "select" THEN FALSE ELSE resOpen
    /\ bodyEOFClosed' = TRUE
    /\ UNCHANGED <<ReadyState, timeout, lastEventID, retry, req, bodyPc, data, eventType, message,
                   closed, served, opened, attempted, nonEsVars>>

\* The rest of Close: ReadyState = CLOSED and the four channels closed.
CloseReturns ==
    /\ closePc = "closing"
    /\ closePc' = "returned"
    /\ ReadyState' = CLOSED
    /\ closed' = TRUE
    /\ UNCHANGED <<esPc, timeout, lastEventID, retry, req, resOpen, bodyPc, data, eventType, message,
                   bodyEOFClosed, served, opened, attempted, nonEsVars>>

\* The body goroutine sends (or is blocked sending) on a channel that has
\* been closed: it panics.
SendOnClosed ==
    /\ \/ bodyPc \in {"OnMessage", "OnError"} /\ closed
       \/ bodyPc = "bodyEOF" /\ bodyEOFClosed
    /\ bodyPc' = "panic"
    /\ UNCHANGED <<ReadyState, esPc, timeout, lastEventID, retry, req, resOpen, data, eventType,
                   message, closePc, closed, bodyEOFClosed, served, opened, attempted, nonEsVars>>

----------------------------------------------------------------------------
(* Cache.check and tryConnect, step by step.  A goroutine of Cache.check   *)
(* is followed from its start to its send on checkResultChan; listener and *)
(* conn are what it has opened.  The peer and the rendezvous server decide *)
(* how each call ends.                                                     *)

UdpPublic == UDPAddr(<<8, 8, 8, 8>>, 11113)

\* An address of each kind that is checked.
Checked == {TcpPublic, UdpPublic, Punched}

NoCheck ==
    [pc |-> "none", status |-> ConnectStatusPending, listener |-> "none", conn |-> "none",
     packet |-> "none", creq |-> FALSE, punched |-> FALSE, results |-> 0]

InitChecks == checks = [a \in Checked |-> NoCheck]

nonCheckVars == <<notifierVars, cacheVars, heapVars, esVars, callVars, run>>

\* go c.check(...): req.status = ConnectStatusFailure, then tryConnect by the
\* type of the address.
GoCheck(a) ==
    /\ checks[a].pc \in {"none", "exit"}
    /\ checks' = [checks EXCEPT ![a] =
          [NoCheck EXCEPT !.status = ConnectStatusFailure,
                          !.pc = CASE a.type = "TCPAddr" -> "DialTimeout"
                                   [] a.type = "UDPAddr" -> "DialUDP"
                                   [] a.type = "NetpuncherAddr" -> "ResolveUDPAddr"
                                   [] OTHER -> "checkResultChan"]]
    /\ UNCHANGED nonCheckVars

Closed(r) == IF r = "open" THEN "closed" ELSE r

\* A return that runs no deferred call.
ReturnLeaking(c, success) ==
    [c EXCEPT !.pc = "checkResultChan",
              !.status = IF success THEN ConnectStatusSuccess ELSE ConnectStatusFailure]

\* tryConnect returns success: the deferred Close calls run (conn, then
\* listener), check sets the status and goes to its send.
Return(c, success) ==
    [c EXCEPT !.pc = "checkResultChan",
              !.status = IF success THEN ConnectStatusSuccess ELSE ConnectStatusFailure,
              !.conn = Closed(c.conn),
              !.listener = Closed(c.listener)]

\* tryConnectUDP returns: it has no deferred call, and leaves conn as it is.
ReturnUDP(c, success) ==
    [c EXCEPT !.pc = "checkResultChan",
              !.status = IF success THEN ConnectStatusSuccess ELSE ConnectStatusFailure]

\* tryConnectTCP: net.DialTimeout fails, in connectTimeout at the latest, or
\* gives a connection, which is closed.
DialTimeout(a, ok) ==
    /\ checks[a].pc = "DialTimeout"
    /\ checks' = [checks EXCEPT ![a] =
          IF ok THEN Return([@ EXCEPT !.conn = "open"], TRUE) ELSE Return(@, FALSE)]
    /\ UNCHANGED nonCheckVars

\* tryConnectUDP: net.DialUDP, then the ping is written and the read deadline
\* set.
DialUDP(a, ok) ==
    /\ checks[a].pc = "DialUDP"
    /\ checks' = [checks EXCEPT ![a] =
          IF ok THEN [@ EXCEPT !.conn = "open", !.pc = "ReadFromUDP"] ELSE ReturnUDP(@, FALSE)]
    /\ UNCHANGED nonCheckVars

\* tryConnectUDP: conn.ReadFromUDP returns n bytes, or an error, at the
\* deadline at the latest.
ReadFromUDP(a, n, err) ==
    /\ checks[a].pc = "ReadFromUDP"
    /\ checks' = [checks EXCEPT ![a] = ReturnUDP(@, ~err /\ n > 0)]
    /\ UNCHANGED nonCheckVars

\* tryConnectNetpuncher: net.ResolveUDPAddr
ResolveUDPAddr(a, ok) ==
    /\ checks[a].pc = "ResolveUDPAddr"
    /\ checks' = [checks EXCEPT ![a] = IF ok THEN [@ EXCEPT !.pc = "Listen"] ELSE Return(@, FALSE)]
    /\ UNCHANGED nonCheckVars

\* tryConnectNetpuncher: c4netioudp.Listen, defer listener.Close()
Listen(a, ok) ==
    /\ checks[a].pc = "Listen"
    /\ checks' = [checks EXCEPT ![a] =
          IF ok THEN [@ EXCEPT !.listener = "open", !.pc = "Dial"] ELSE Return(@, FALSE)]
    /\ UNCHANGED nonCheckVars

\* tryConnectNetpuncher: listener.Dial, defer conn.Close()
Dial(a, ok) ==
    /\ checks[a].pc = "Dial"
    /\ checks' = [checks EXCEPT ![a] =
          IF ok THEN [@ EXCEPT !.conn = "open", !.pc = "MarshalBinary"] ELSE Return(@, FALSE)]
    /\ UNCHANGED nonCheckVars

\* tryConnectNetpuncher: sreq.MarshalBinary, conn.Write
MarshalBinary(a, ok) ==
    /\ checks[a].pc = "MarshalBinary"
    /\ checks' = [checks EXCEPT ![a] = IF ok THEN [@ EXCEPT !.pc = "ReadFrom"] ELSE Return(@, FALSE)]
    /\ UNCHANGED nonCheckVars

\* What netpuncher.ReadFrom gives: an error, or a message; packet is the one
\* read (and logged) last.
Packets == {"error", "AssID", "CReq", "other"}

\* tryConnectNetpuncher: netpuncher.ReadFrom in the for loop, and the switch
\* on the message.
ReadFrom(a, packet) ==
    /\ checks[a].pc = "ReadFrom"
    /\ checks' = [checks EXCEPT ![a] =
          CASE packet = "error" -> Return([@ EXCEPT !.packet = packet], FALSE)
            [] packet = "CReq" -> [@ EXCEPT !.packet = packet, !.creq = TRUE, !.pc = "Punch"]
            [] OTHER -> [@ EXCEPT !.packet = packet]]
    /\ UNCHANGED nonCheckVars

\* tryConnectNetpuncher: listener.Punch, which fails at connectTimeout at the
\* latest.
Punch(a, ok) ==
    /\ checks[a].pc = "Punch"
    /\ checks' = [checks EXCEPT ![a] =
          IF ok THEN Return([@ EXCEPT !.punched = TRUE], TRUE) ELSE Return(@, FALSE)]
    /\ UNCHANGED nonCheckVars

\* c.checkResultChan <- req: the run loop takes the result, and the goroutine
\* ends.
SendResult(a) ==
    /\ checks[a].pc = "checkResultChan"
    /\ checks' = [checks EXCEPT ![a] = [@ EXCEPT !.pc = "exit", !.results = @ + 1]]
    /\ UNCHANGED nonCheckVars

\* The steps of the goroutine started for a.
CheckStep(a) ==
    \/ \E ok \in BOOLEAN : DialTimeout(a, ok)
    \/ \E ok \in BOOLEAN : DialUDP(a, ok)
    \/ \E n \in {0, 1} : \E err \in BOOLEAN : ReadFromUDP(a, n, err)
    \/ \E ok \in BOOLEAN : ResolveUDPAddr(a, ok)
    \/ \E ok \in BOOLEAN : Listen(a, ok)
    \/ \E ok \in BOOLEAN : Dial(a, ok)
    \/ \E ok \in BOOLEAN : MarshalBinary(a, ok)
    \/ \E packet \in Packets : ReadFrom(a, packet)
    \/ \E ok \in BOOLEAN : Punch(a, ok)
    \/ SendResult(a)

----------------------------------------------------------------------------
(* notifier.go with concurrent callers.  n.st is a channel of capacity one  *)
(* that holds the notifierState; a call receives it, works on the list and  *)
(* sends it back.  The list itself is wait, the channels are chans; no      *)
(* subscriber receives.                                                     *)

\* The goroutines calling Register, Unregister and Notify.
Callers == {1, 2}

NoCall == [op |-> "none", pc |-> "idle", c |-> 0, e |-> 0, before |-> NewNotifier]

\* NewNotifier: make(chan notifierState, 1), n.st <- notifierState{...}
InitCalls ==
    /\ stChan = <<"notifierState">>
    /\ calls = [g \in Callers |-> NoCall]

nonCallVars == <<nNotify, regAt, got, unreg, cacheVars, heapVars, esVars, checks, run>>

\* A goroutine calls Register, which makes its channel first.
CallRegister(g) ==
    /\ calls[g].pc = "idle"
    /\ Len(chans) < Cardinality(Subscribers)
    /\ chans' = Append(chans, [buf |-> <<>>, closed |-> FALSE])
    /\ calls' = [calls EXCEPT ![g] = [NoCall EXCEPT !.op = "Register", !.pc = "<-n.st",
                                                   !.c = Len(chans) + 1]]
    /\ UNCHANGED <<stChan, wait, nonCallVars>>

\* A goroutine calls Unregister(c) with a channel that Register has made.
CallUnregister(g, c) ==
    /\ calls[g].pc = "idle"
    /\ calls' = [calls EXCEPT ![g] = [NoCall EXCEPT !.op = "Unregister", !.pc = "<-n.st", !.c = c]]
    /\ UNCHANGED <<stChan, wait, chans, nonCallVars>>

\* A goroutine calls Notify.
CallNotify(g) ==
    /\ calls[g].pc = "idle"
    /\ calls' = [calls EXCEPT ![g] = [NoCall EXCEPT !.op = "Notify", !.pc = "<-n.st"]]
    /\ UNCHANGED <<stChan, wait, chans, nonCallVars>>

\* A receive from n.st that leaves the state in the channel.
TakeCopy(g) ==
    /\ calls[g].pc = "<-n.st"
    /\ stChan # <<>>
    /\ calls' = [calls EXCEPT ![g] = [@ EXCEPT !.pc = "for", !.e = 1,
                                               !.before = [wait |-> wait, chans |-> chans]]]
    /\ UNCHANGED <<stChan, wait, chans, nonCallVars>>

\* st := <-n.st; e is st.wait.Front().
Take(g) ==
    /\ calls[g].pc = "<-n.st"
    /\ stChan # <<>>
    /\ stChan' = Tail(stChan)
    /\ calls' = [calls EXCEPT ![g] = [@ EXCEPT !.pc = "for", !.e = 1,
                                               !.before = [wait |-> wait, chans |-> chans]]]
    /\ UNCHANGED <<wait, chans, nonCallVars>>

\* Register: st.wait.PushBack(c)
PushBack(g) ==
    /\ calls[g].op = "Register"
    /\ calls[g].pc = "for"
    /\ wait' = Append(wait, calls[g].c)
    /\ calls' = [calls EXCEPT ![g].pc = "n.st<-"]
    /\ UNCHANGED <<stChan, chans, nonCallVars>>

\* Unregister: one round of the loop over the list.
UnregisterStep(g) ==
    /\ calls[g].op = "Unregister"
    /\ calls[g].pc = "for"
    /\ LET e == calls[g].e IN
       IF e > Len(wait)
       THEN /\ calls' = [calls EXCEPT ![g].pc = "n.st<-"]
            /\ UNCHANGED wait
       ELSE IF ValueEquals(wait[e], calls[g].c)
       THEN /\ wait' = RemoveAt(wait, e)
            /\ calls' = [calls EXCEPT ![g].pc = "n.st<-"]
       ELSE /\ calls' = [calls EXCEPT ![g].e = e + 1]
            /\ UNCHANGED wait
    /\ UNCHANGED <<stChan, chans, nonCallVars>>

\* A round of a Notify whose send waits for room in the channel.
NotifyStepBlocking(g) ==
    /\ calls[g].op = "Notify"
    /\ calls[g].pc = "for"
    /\ LET e == calls[g].e IN
       IF e > Len(wait)
       THEN /\ calls' = [calls EXCEPT ![g].pc = "n.st<-"]
            /\ UNCHANGED <<wait, chans>>
       ELSE LET c == wait[e] IN
            /\ ~chans[c].closed
            /\ CanSend(chans, c)
            /\ chans' = [chans EXCEPT ![c].buf = Append(@, 1)]
            /\ calls' = [calls EXCEPT ![g].e = e + 1]
            /\ UNCHANGED wait
    /\ UNCHANGED <<stChan, nonCallVars>>

\* A round of Notify's loop that closes the channel of a subscriber who is
\* behind and leaves it in the list.
NotifyStepNoRemove(g) ==
    /\ calls[g].op = "Notify"
    /\ calls[g].pc = "for"
    /\ LET e == calls[g].e IN
       IF e > Len(wait)
       THEN /\ calls' = [calls EXCEPT ![g].pc = "n.st<-"]
            /\ UNCHANGED <<wait, chans>>
       ELSE LET c == wait[e] IN
            IF chans[c].closed
            THEN /\ calls' = [calls EXCEPT ![g].pc = "panic"]
                 /\ UNCHANGED <<wait, chans>>
            ELSE IF CanSend(chans, c)
            THEN /\ chans' = [chans EXCEPT ![c].buf = Append(@, 1)]
                 /\ calls' = [calls EXCEPT ![g].e = e + 1]
                 /\ UNCHANGED wait
            ELSE /\ chans' = [chans EXCEPT ![c].closed = TRUE]
                 /\ calls' = [calls EXCEPT ![g].pc = "n.st<-"]
                 /\ UNCHANGED wait
    /\ UNCHANGED <<stChan, nonCallVars>>

\* Notify: one round of the loop over the list.  A send on a closed channel
\* and the close of a closed channel panic; after Remove the loop ends, as
\* e.Next() is nil.
NotifyStep(g) ==
    /\ calls[g].op = "Notify"
    /\ calls[g].pc = "for"
    /\ LET e == calls[g].e IN
       IF e > Len(wait)
       THEN /\ calls' = [calls EXCEPT ![g].pc = "n.st<-"]
            /\ UNCHANGED <<wait, chans>>
       ELSE LET c == wait[e] IN
            IF chans[c].closed
            THEN /\ calls' = [calls EXCEPT ![g].pc = "panic"]
                 /\ UNCHANGED <<wait, chans>>
            ELSE IF CanSend(chans, c)
            THEN /\ chans' = [chans EXCEPT ![c].buf = Append(@, 1)]
                 /\ calls' = [calls EXCEPT ![g].e = e + 1]
                 /\ UNCHANGED wait
            ELSE /\ wait' = RemoveAt(wait, e)
                 /\ chans' = [chans EXCEPT ![c].closed = TRUE]
                 /\ calls' = [calls EXCEPT ![g].pc = "n.st<-"]
    /\ UNCHANGED <<stChan, nonCallVars>>

\* n.st <- st, and the call returns.
Put(g) ==
    /\ calls[g].pc = "n.st<-"
    /\ Len(stChan) < 1
    /\ stChan' = Append(stChan, "notifierState")
    /\ calls' = [calls EXCEPT ![g] = NoCall]
    /\ UNCHANGED <<wait, chans, nonCallVars>>

----------------------------------------------------------------------------
(* Cache.run and its channels, by who waits where.  What the requests do   *)
(* to the games is left out: a request makes the loop call Notify some     *)
(* number of times, and UpdateAddrs starts some checks.  The loop's Notify *)
(* is the call of caller 1; caller 2 registers subscribers, who never      *)
(* receive and never unregister.                                           *)

Loop == 1
Subscriber == 2

\* The goroutines calling the methods of the Cache.
Clients == {1}

\* The goroutines of check that can run at a time.
Checkers == {1}

\* The methods that send a cacheReq.
Updates == {"UpdateAllGames", "UpdateGame", "UpdateAddrs", "DeleteGame"}

\* NewCache: go c.run()
InitRun ==
    run = [pc |-> "select", events |-> 0,
           clients |-> [k \in Clients |-> "idle"],
           checkers |-> [j \in Checkers |-> "none"]]

nonRunVars == <<nNotify, regAt, got, unreg, cacheVars, heapVars, esVars, checks>>

\* A goroutine calls UpdateAllGames, UpdateGame, UpdateAddrs or DeleteGame:
\* c.updateRequestChan <- cacheReq{...}
CallUpdate(k, method) ==
    /\ run.clients[k] = "idle"
    /\ run' = [run EXCEPT !.clients[k] = method]
    /\ UNCHANGED <<wait, chans, callVars, nonRunVars>>

\* A goroutine calls Get: c.requestGamesChan <- res
CallGet(k) ==
    /\ run.clients[k] = "idle"
    /\ run' = [run EXCEPT !.clients[k] = "requestGamesChan<-"]
    /\ UNCHANGED <<wait, chans, callVars, nonRunVars>>

\* case req := <-c.updateRequestChan: the method returns; the loop will call
\* Notify n times and has started the checks of started.
RecvUpdate(k, n, started) ==
    /\ run.pc = "select"
    /\ run.clients[k] \in Updates
    /\ CASE run.clients[k] = "UpdateAllGames" -> started = {}
         [] run.clients[k] = "UpdateGame" -> n = 1 /\ started = {}
         [] run.clients[k] = "UpdateAddrs" -> n = 0
         [] run.clients[k] = "DeleteGame" -> n = 1 /\ started = {}
    /\ \A j \in started : run.checkers[j] = "none"
    /\ run' = [run EXCEPT !.clients[k] = "idle", !.pc = "Notify", !.events = n,
                          !.checkers = [j \in Checkers |->
                                           IF j \in started THEN "tryConnect" ELSE @[j]]]
    /\ UNCHANGED <<wait, chans, callVars, nonRunVars>>

\* tryConnect returns in a goroutine of check, which goes to its send.
CheckDone(j) ==
    /\ run.checkers[j] = "tryConnect"
    /\ run' = [run EXCEPT !.checkers[j] = "checkResultChan<-"]
    /\ UNCHANGED <<wait, chans, callVars, nonRunVars>>

\* case res := <-c.checkResultChan: Notify is called if the game is cached.
RecvResult(j, n) ==
    /\ run.pc = "select"
    /\ run.checkers[j] = "checkResultChan<-"
    /\ run' = [run EXCEPT !.checkers[j] = "none", !.pc = "Notify", !.events = n]
    /\ UNCHANGED <<wait, chans, callVars, nonRunVars>>

\* case resChan := <-c.requestGamesChan
RecvGet(k) ==
    /\ run.pc = "select"
    /\ run.clients[k] = "requestGamesChan<-"
    /\ run' = [run EXCEPT !.clients[k] = "<-res", !.pc = "resChan<-"]
    /\ UNCHANGED <<wait, chans, callVars, nonRunVars>>

\* resChan <- c.copyState(), received by Get, which returns.
Reply(k) ==
    /\ run.pc = "resChan<-"
    /\ run.clients[k] = "<-res"
    /\ run' = [run EXCEPT !.clients[k] = "idle", !.pc = "select"]
    /\ UNCHANGED <<wait, chans, callVars, nonRunVars>>

\* c.notifyGameUpdate(id): the loop calls GameUpdates.Notify.
RunNotify ==
    /\ run.pc = "Notify"
    /\ run.events > 0
    /\ calls[Loop].pc = "idle"
    /\ run' = [run EXCEPT !.events = @ - 1]
    /\ calls' = [calls EXCEPT ![Loop] = [NoCall EXCEPT !.op = "Notify", !.pc = "<-n.st"]]
    /\ UNCHANGED <<wait, chans, stChan, nonRunVars>>

\* The case is done: the loop goes round to its select.
RunSelect ==
    /\ run.pc = "Notify"
    /\ run.events = 0
    /\ calls[Loop].pc = "idle"
    /\ run' = [run EXCEPT !.pc = "select"]
    /\ UNCHANGED <<wait, chans, callVars, nonRunVars>>

----------------------------------------------------------------------------
(* The specifications *)

Init == InitNotifier /\ InitCache /\ InitHeap /\ InitEventSource /\ InitChecks /\ InitCalls /\ InitRun

Next ==
    \/ \E list \in SeqsUpTo(LeagueGames, MaxList) : UpdateAllGames(list)
    \/ \E game \in LeagueGames : UpdateGame(game)
    \/ \E id \in GameIDs : \E addrs \in SeqsUpTo(Advertised(id), MaxList) : UpdateAddrs(id, addrs)
    \/ \E id \in GameIDs : DeleteGame(id)
    \/ \E p \in BagToSet(probes) : \E ok \in BOOLEAN : Check(p, ok)
    \/ Get
    \/ LoopBack

Spec == Init /\ [][Next]_vars

NextNotifier ==
    \/ DoRegister
    \/ \E c \in 0..Len(chans) : DoUnregister(c)
    \/ DoNotify
    \/ \E c \in 1..Len(chans) : Receive(c)

SpecNotifier == Init /\ [][NextNotifier]_vars

NextHeap ==
    \/ \E list \in SeqsUpTo(HeapGames, MaxList) : HeapUpdateAllGames(list)
    \/ \E game \in HeapGames : HeapUpdateGame(game)
    \/ \E id \in HeapIDs : \E addrs \in SeqsUpTo(Advertised(id), MaxList) : HeapUpdateAddrs(id, addrs)
    \/ \E id \in HeapIDs : HeapDeleteGame(id)
    \/ \E p \in BagToSet(probes) : \E ok \in BOOLEAN : HeapCheck(p, ok)
    \/ HeapGet

SpecHeap == Init /\ [][NextHeap]_vars

\* The steps of the client and of the server.
NextClient ==
    \/ LoopTop
    \/ RetryElapsed
    \/ \E outcome \in {"error", "content-type", "stream"} : Do(outcome)
    \/ \E line \in Lines : Scan(line)
    \/ \E err \in BOOLEAN : ScanEnd(err)
    \/ BodyEOF
    \/ OnClose
    \/ CloseReturns
    \/ SendOnClosed

\* The steps of the owner.
NextOwner ==
    \/ ReceiveOnError
    \/ ReceiveOnOpen
    \/ ReceiveOnMessage
    \/ ReceiveBodyError
    \/ CallClose

NextEventSource == NextClient \/ NextOwner

SpecEventSource == Init /\ [][NextEventSource]_vars

\* Every goroutine of the client that can take a step takes one, and every
\* request and read ends; the owner is free to receive or not, and to call
\* Close or not.
FairSpecEventSource == SpecEventSource /\ WF_vars(NextClient)

\* The client reading streams of ParserLines from a server that always
\* answers with an event stream, and an owner who receives every event.
NextParser ==
    \/ LoopTop
    \/ RetryElapsed
    \/ Do("stream")
    \/ ReceiveOnOpen
    \/ \E line \in ParserLines : Scan(line)
    \/ ScanEnd(FALSE)
    \/ ReceiveOnMessage
    \/ BodyEOF

SpecParser == Init /\ [][NextParser]_vars

\* The lines of a stream that bear on the next request.
ReconnectLines ==
    { <<"r", "e", "t", "r", "y", ":", " ", "1">>,
      <<"i", "d", ":", " ", "7">> }

\* The steps of the client and of the server with streams of ReconnectLines.
ReconnectClient ==
    \/ LoopTop
    \/ RetryElapsed
    \/ \E outcome \in {"error", "content-type", "stream"} : Do(outcome)
    \/ \E line \in ReconnectLines : Scan(line)
    \/ \E err \in BOOLEAN : ScanEnd(err)
    \/ BodyEOF
    \/ OnClose
    \/ CloseReturns
    \/ SendOnClosed

\* The owner's receives; these streams carry no data, so no message is sent.
OwnerReceives ==
    \/ ReceiveOnError
    \/ ReceiveOnOpen
    \/ ReceiveBodyError

NextReconnect == ReconnectClient \/ OwnerReceives \/ CallClose

SpecReconnect == Init /\ [][NextReconnect]_vars

\* The client and the server keep going, and the owner receives what the
\* client sends for as long as it has not called Close; whether it calls
\* Close is up to it.
FairSpecReconnect == SpecReconnect /\ WF_vars(ReconnectClient) /\ WF_vars(OwnerReceives)

NextChecks ==
    \/ \E a \in Checked : GoCheck(a)
    \/ \E a \in Checked : CheckStep(a)

SpecChecks == Init /\ [][NextChecks]_vars

\* Every goroutine that can take a step takes one; every call that has a
\* timeout returns, and the rendezvous server goes on sending.
FairSpecChecks == SpecChecks /\ \A a \in Checked : WF_vars(CheckStep(a))

NextCalls ==
    \/ \E g \in Callers : CallRegister(g)
    \/ \E g \in Callers : \E c \in 1..Len(chans) : CallUnregister(g, c)
    \/ \E g \in Callers : CallNotify(g)
    \/ \E g \in Callers : Take(g)
    \/ \E g \in Callers : PushBack(g)
    \/ \E g \in Callers : UnregisterStep(g)
    \/ \E g \in Callers : NotifyStep(g)
    \/ \E g \in Callers : Put(g)

SpecCalls == Init /\ [][NextCalls]_vars

\* The steps of the run loop.
RunStep ==
    \/ RunNotify
    \/ Take(Loop)
    \/ NotifyStep(Loop)
    \/ Put(Loop)
    \/ RunSelect
    \/ \E k \in Clients : Reply(k)

\* The steps of the goroutine that registers subscribers.
SubscriberStep ==
    \/ Take(Subscriber)
    \/ PushBack(Subscriber)
    \/ Put(Subscriber)

NextRun ==
    \/ \E k \in Clients : \E method \in Updates : CallUpdate(k, method)
    \/ \E k \in Clients : CallGet(k)
    \/ \E k \in Clients : \E n \in 0..Cardinality(GameIDs) : \E started \in SUBSET Checkers :
          RecvUpdate(k, n, started)
    \/ \E j \in Checkers : CheckDone(j)
    \/ \E j \in Checkers : \E n \in {0, 1} : RecvResult(j, n)
    \/ \E k \in Clients : RecvGet(k)
    \/ CallRegister(Subscriber)
    \/ RunStep
    \/ SubscriberStep

SpecRun == Init /\ [][NextRun]_vars

\* The loop and the goroutines go on when they can.  A select takes each of
\* its cases that is ready again and again, and the goroutines waiting to
\* receive from a channel are served in turn: strong fairness on the cases of
\* the loop's select and on its receive from n.st.
FairSpecRun ==
    /\ SpecRun
    /\ WF_vars(RunStep)
    /\ WF_vars(SubscriberStep)
    /\ SF_vars(Take(Loop))
    /\ \A j \in Checkers :
          /\ WF_vars(CheckDone(j))
          /\ SF_vars(\E n \in {0, 1} : RecvResult(j, n))
    /\ \A k \in Clients :
          /\ SF_vars(\E n \in 0..Cardinality(GameIDs) : \E started \in SUBSET Checkers :
                         RecvUpdate(k, n, started))
          /\ SF_vars(RecvGet(k))

----------------------------------------------------------------------------
(* The notifier's claims, under SpecNotifier *)

\* The channels in the list.
Live == {wait[i] : i \in 1..Len(wait)}

\* The events lo+1 .. hi, in order.
Events(lo, hi) == [i \in 1..(hi - lo) |-> lo + i]

\* C1: every Notify call delivers its event to every subscription that is
\* registered when the call starts and has room in its buffer, also in a call
\* that drops another subscription for being full.
C1_NotifyReachesEveryFreeSubscriber ==
    [][nNotify' = nNotify + 1 =>
          \A i \in 1..Len(wait) :
             CanSend(chans, wait[i]) =>
                chans'[wait[i]].buf = Append(chans[wait[i]].buf, nNotify')]_vars

\* C2: a subscription that is never drained (and not unregistered by its
\* owner) holds the events of the first notifierBufSize Notify calls made
\* since it registered and is still registered and open; from the next call
\* on it is out of the list and closed, with nothing more in its buffer.
C2_UndrainedDroppedAtNPlus1 ==
    \A c \in 1..Len(chans) :
       (got[c] = <<>> /\ (c \in Live \/ chans[c].closed)) =>
          LET k == nNotify - regAt[c] IN
            IF k <= notifierBufSize
            THEN /\ c \in Live
                 /\ ~chans[c].closed
                 /\ chans[c].buf = Events(regAt[c], nNotify)
            ELSE /\ c \notin Live
                 /\ chans[c].closed
                 /\ chans[c].buf = Events(regAt[c], regAt[c] + notifierBufSize)

----------------------------------------------------------------------------
(* The cache's claims, under Spec.  In a state with loopPc = "handled",     *)
(* last is the message the loop has just handled, prev the games and the   *)
(* running checks before it, emitted the events it notified.               *)

HandledMsg(t) == loopPc = "handled" /\ last.type = t

Terminal(status) == status \in {ConnectStatusSuccess, ConnectStatusFailure}

IsChange(e) == e.G # <<>>
IsDeletion(e) == e.G = <<>>

\* How many running checks are for address key k of game id.
InFlight(bag, id, k) ==
    BagCardinality([p \in {q \in BagToSet(bag) : q.id = id /\ cacheAddrKey(q.addr) = k}
                       |-> CopiesIn(p, bag)])

\* C3: once a terminal status is recorded for an address key of a session
\* entry, no message the loop handles changes it to the other terminal
\* status (there being no new Pending in between), also when the session
\* was deleted and created again while a check was running.
C3_TerminalStatusStays ==
    loopPc = "handled" =>
       \A id \in DOMAIN games \cap DOMAIN prev.games :
          \A k \in DOMAIN games[id].Addrs \cap DOMAIN prev.games[id].Addrs :
             Terminal(prev.games[id].Addrs[k].Status) =>
                games[id].Addrs[k].Status = prev.games[id].Addrs[k].Status

\* C4: at every moment at most one check is running for a given game id and
\* address key.
C4_AtMostOneCheckInFlight ==
    \A p \in BagToSet(probes) : InFlight(probes, p.id, cacheAddrKey(p.addr)) <= 1

\* The keys of the addresses of a list that are not skipped.
KeysOf(addrs) ==
    {cacheAddrKey(addrs[i]) : i \in {j \in 1..Len(addrs) : ~shouldSkipAddr(addrs[j])}}

\* C5: UpdateAddrs for a known game leaves exactly one entry per submitted
\* address that is not skipped; an address whose key was already there
\* (submitted before) keeps its entry, status included, and gets no further
\* check; one that is new gets status Pending and exactly one check, however
\* often the list repeats it.
C5_UpdateAddrsIdempotent ==
    (HandledMsg("reqUpdateAddrs") /\ last.id \in DOMAIN prev.games) =>
       LET id == last.id
           old == prev.games[id].Addrs
           new == games[id].Addrs
       IN  /\ DOMAIN new = DOMAIN old \cup KeysOf(last.payload)
           /\ \A k \in DOMAIN old :
                 /\ new[k] = old[k]
                 /\ InFlight(probes, id, k) = InFlight(prev.probes, id, k)
           /\ \A i \in 1..Len(last.payload) :
                 LET a == last.payload[i]
                     k == cacheAddrKey(a)
                 IN  (~shouldSkipAddr(a) /\ k \notin DOMAIN old) =>
                        /\ new[k] = [Addr |-> a, Status |-> ConnectStatusPending]
                        /\ InFlight(probes, id, k) = InFlight(prev.probes, id, k) + 1
           /\ BagCardinality(probes) =
                 BagCardinality(prev.probes) + Cardinality(KeysOf(last.payload) \ DOMAIN old)

\* C5's case: the same public address submitted twice in one list, for a game
\* whose earlier check of it has already succeeded.
C5_Witness ==
    /\ HandledMsg("reqUpdateAddrs")
    /\ last.id = 1
    /\ last.payload = <<TcpPublic, TcpPublic>>
    /\ 1 \in DOMAIN prev.games
    /\ cacheAddrKey(TcpPublic) \in DOMAIN prev.games[1].Addrs
    /\ games[1].Addrs[cacheAddrKey(TcpPublic)].Status = ConnectStatusSuccess
    /\ probes = EmptyBag

\* The events among es that are about game id.
EventsOf(es, id) == SelectSeq(es, LAMBDA e : e.ID = id)

\* How many games of a list have the id.
CountID(list, id) == Cardinality({i \in 1..Len(list) : list[i].ID = id})

\* C6 as claimed: a full refresh emits no notification for a session that
\* was cached and is in the input with the payload it had.
C6_NoEventForUnchangedGame ==
    HandledMsg("reqUpdateAll") =>
       \A id \in DOMAIN prev.games \cap DOMAIN games :
          games[id] = prev.games[id] => EventsOf(emitted, id) = <<>>

\* C6, amended: a full refresh emits, for every game id, as many change
\* notifications as the input has games with that id, whether or not the
\* payload differs from the cached one, each carrying the payload of its
\* input game, and exactly one deletion notification if the id was cached
\* and is not in the input (none otherwise).
C6_EventPerInputGame ==
    HandledMsg("reqUpdateAll") =>
       \A id \in GameIDs :
          LET es == EventsOf(emitted, id)
              changes == SelectSeq(es, IsChange)
              ins == SelectSeq(last.payload, LAMBDA g : g.ID = id)
          IN  /\ Len(changes) = Len(ins)
              /\ \A i \in 1..Len(changes) : changes[i].G[1].Game = ins[i]
              /\ Len(SelectSeq(es, IsDeletion)) =
                    (IF id \in DOMAIN prev.games /\ CountID(last.payload, id) = 0 THEN 1 ELSE 0)

\* C6's case: games 1 and 2 cached, the refresh names game 1 alone, with the
\* payload it has: one change event for 1, one deletion event for 2.
C6_Witness ==
    /\ HandledMsg("reqUpdateAll")
    /\ DOMAIN prev.games = {1, 2}
    /\ Len(last.payload) = 1
    /\ last.payload[1] = prev.games[1].Game
    /\ games[1] = prev.games[1]
    /\ emitted = <<[ID |-> 1, G |-> <<games[1]>>], [ID |-> 2, G |-> <<>>]>>

\* The last game of a list with the id.
LastWithID(list, id) ==
    list[CHOOSE i \in 1..Len(list) :
            list[i].ID = id /\ \A j \in (i + 1)..Len(list) : list[j].ID # id]

\* C7: after UpdateAllGames the cached ids are exactly the ids of the input;
\* an id cached before keeps its address map, only its payload is replaced;
\* a new id has an empty address map; the running checks are untouched.
C7_UpdateAllReplacesGameSet ==
    HandledMsg("reqUpdateAll") =>
       /\ DOMAIN games = SeenIDs(last.payload)
       /\ \A id \in DOMAIN games :
             /\ games[id].Game = LastWithID(last.payload, id)
             /\ games[id].Addrs =
                   (IF id \in DOMAIN prev.games THEN prev.games[id].Addrs ELSE EmptyMap)
       /\ probes = prev.probes

\* C7's case: both games cached with address state; the refresh keeps game 1
\* under a new title and drops game 2.
C7_Witness ==
    /\ HandledMsg("reqUpdateAll")
    /\ DOMAIN prev.games = {1, 2}
    /\ \A id \in {1, 2} : DOMAIN prev.games[id].Addrs # {}
    /\ DOMAIN games = {1}
    /\ games[1].Game # prev.games[1].Game
    /\ games[1].Addrs = prev.games[1].Addrs

\* C8: UpdateAllGames emits one change notification per game of the input,
\* in input order, then one deletion notification per removed id, and
\* nothing else: no deletion comes before a change.
C8_ChangesThenDeletions ==
    HandledMsg("reqUpdateAll") =>
       LET list == last.payload
           n == Len(list)
           removed == DOMAIN prev.games \ SeenIDs(list)
       IN  /\ Len(emitted) = n + Cardinality(removed)
           /\ \A i \in 1..n : IsChange(emitted[i]) /\ emitted[i].ID = list[i].ID
           /\ \A i \in (n + 1)..Len(emitted) : IsDeletion(emitted[i])
           /\ {emitted[i].ID : i \in (n + 1)..Len(emitted)} = removed

\* C8's case: two games in the input, then the deletion of the other id.
C8_Witness ==
    /\ HandledMsg("reqUpdateAll")
    /\ Len(last.payload) = 2
    /\ last.payload[1] # last.payload[2]
    /\ Len(emitted) = 3
    /\ IsChange(emitted[2])
    /\ IsDeletion(emitted[3])

\* C9: DeleteGame(id) emits a deletion notification if and only if id was
\* cached; for an unknown id it changes nothing and notifies nothing.
C9_DeleteNotifiesIffCached ==
    HandledMsg("reqDelete") =>
       /\ last.id \notin DOMAIN games
       /\ \A id \in DOMAIN games : id \in DOMAIN prev.games /\ games[id] = prev.games[id]
       /\ DOMAIN games = DOMAIN prev.games \ {last.id}
       /\ IF last.id \in DOMAIN prev.games
          THEN emitted = <<[ID |-> last.id, G |-> <<>>]>>
          ELSE emitted = <<>>

\* C10: UpdateAddrs for an id that is not cached is a no-op: no session, no
\* address entry, no check, no notification.
C10_UpdateAddrsUnknownIsNoOp ==
    (HandledMsg("reqUpdateAddrs") /\ last.id \notin DOMAIN prev.games) =>
       /\ games = prev.games
       /\ probes = prev.probes
       /\ emitted = <<>>

\* C10's case: a public address submitted for game 1 while game 1 is not
\* cached (and game 2 is).
C10_Witness ==
    /\ HandledMsg("reqUpdateAddrs")
    /\ last.id = 1
    /\ last.payload = <<TcpPublic>>
    /\ DOMAIN prev.games = {2}

\* C11: a check result whose game id is not cached when the loop takes it
\* is discarded: the games are as they were (no game and no address entry is
\* made), nothing is notified, and the check that sent it is over.
C11_ResultForUnknownGameDiscarded ==
    (HandledMsg("checkResult") /\ last.id \notin DOMAIN prev.games) =>
       /\ games = prev.games
       /\ emitted = <<>>
       /\ BagCardinality(probes) = BagCardinality(prev.probes) - 1

\* C11's case: the check of game 1's public address ends after game 1 was
\* deleted, while game 2 is cached.
C11_Witness ==
    /\ HandledMsg("checkResult")
    /\ last.id = 1
    /\ last.payload.addr = TcpPublic
    /\ DOMAIN prev.games = {2}
    /\ DOMAIN games = {2}

----------------------------------------------------------------------------
(* The claims about the values handed out, under SpecHeap *)

\* The references reachable from c.games.
LiveRefs == {Root} \cup {heap[Root][id].Addrs : id \in DOMAIN heap[Root]}

\* C13: the map a Get returned and the item of a published CacheUpdate share
\* no map with the cache, and whatever the loop handles afterwards they read
\* as they read when handed out: same ids, same address keys, same statuses.
C13_HandedOutValuesKeepTheirState ==
    /\ \A i \in 1..Len(snap) :
          /\ DerefGames(heap, snap[i].ref) = snap[i].seen
          /\ snap[i].ref \notin LiveRefs
          /\ \A id \in DOMAIN heap[snap[i].ref] : heap[snap[i].ref][id].Addrs \notin LiveRefs
    /\ \A i \in 1..Len(pub) :
          /\ DerefItem(heap, pub[i].item) = pub[i].seen
          /\ pub[i].item.Addrs \notin LiveRefs

\* C13's case: a snapshot and an item were handed out while game 1's address
\* was Pending; since then the check has succeeded, or the game is gone.
C13_Witness ==
    /\ snap # <<>>
    /\ pub # <<>>
    /\ 1 \in DOMAIN snap[1].seen
    /\ cacheAddrKey(TcpPublic) \in DOMAIN snap[1].seen[1].Addrs
    /\ snap[1].seen[1].Addrs[cacheAddrKey(TcpPublic)].Status = ConnectStatusPending
    /\ pub[1].seen = snap[1].seen[1]
    /\ LET gm == DerefGames(heap, Root) IN
          \/ 1 \notin DOMAIN gm
          \/ /\ cacheAddrKey(TcpPublic) \in DOMAIN gm[1].Addrs
             /\ gm[1].Addrs[cacheAddrKey(TcpPublic)].Status = ConnectStatusSuccess

----------------------------------------------------------------------------
(* The claims about the address filter, under Spec *)

\* The addresses of the model that the filter is to keep out: loopback (not
\* global unicast), a private range, an unknown kind.
Filtered == {TcpLoopback, UdpPrivate, IpPublic}

\* C14: no entry is ever recorded and no check ever run for a filtered
\* address, whatever UpdateAddrs is called with; a NetpuncherAddr submitted
\* for a cached game has an entry afterwards, and when its key is new the
\* entry is Pending and one check has been started for it.
C14_FilteredNeverRecordedNetpuncherAlways ==
    /\ \A id \in DOMAIN games : \A k \in DOMAIN games[id].Addrs :
          /\ games[id].Addrs[k].Addr \notin Filtered
          /\ \A a \in Filtered : k # cacheAddrKey(a)
    /\ \A p \in BagToSet(probes) : p.addr \notin Filtered
    /\ HandledMsg("checkResult") => last.payload.addr \notin Filtered
    /\ (HandledMsg("reqUpdateAddrs") /\ last.id \in DOMAIN prev.games) =>
          \A i \in 1..Len(last.payload) :
             LET a == last.payload[i]
                 k == cacheAddrKey(a)
             IN  a.type = "NetpuncherAddr" =>
                    /\ k \in DOMAIN games[last.id].Addrs
                    /\ k \notin DOMAIN prev.games[last.id].Addrs =>
                          /\ games[last.id].Addrs[k] = [Addr |-> a, Status |-> ConnectStatusPending]
                          /\ InFlight(probes, last.id, k) = InFlight(prev.probes, last.id, k) + 1

\* C14's case: a private UDP endpoint and the netpuncher target submitted
\* together for game 2, which had no address: only the target is recorded.
C14_Witness ==
    /\ HandledMsg("reqUpdateAddrs")
    /\ last.id = 2
    /\ last.payload = <<UdpPrivate, Punched>>
    /\ 2 \in DOMAIN prev.games
    /\ prev.games[2].Addrs = EmptyMap
    /\ DOMAIN games[2].Addrs = {cacheAddrKey(Punched)}
    /\ probes = prev.probes (+) SetToBag({[id |-> 2, addr |-> Punched]})

----------------------------------------------------------------------------
(* More claims about the notifier, under SpecNotifier *)

\* What has been sent to a channel so far: what its subscriber has received
\* and what is still in the buffer.
Delivered(c) == got[c] \o chans[c].buf

\* C15: a subscriber that keeps reading its channel (it is in the list and
\* has read all that was sent to it) has received the events of all the
\* Notify calls made since it registered, in the order of the calls; the
\* cache loop makes them in the order of its mutations, each with the clone
\* notifyGameUpdate takes right after the mutation.
C15_DrainingSubscriberSeesEveryMutationInOrder ==
    \A c \in Live :
       chans[c].buf = <<>> => got[c] = Events(regAt[c], nNotify)

\* C16: every channel has been sent the events of the Notify calls made since
\* it was registered, in the order of the calls, each once and none missing:
\* all of them up to now while it is in the list, a first part of them once
\* it is out of it.
C16_EventsInCallOrderWithoutGaps ==
    \A c \in 1..Len(chans) :
       /\ Delivered(c) = Events(regAt[c], regAt[c] + Len(Delivered(c)))
       /\ c \in Live => regAt[c] + Len(Delivered(c)) = nNotify

\* C17: Unregister(c) takes c out of the list when it is there and leaves
\* the list as it is otherwise (c never registered, unregistered before,
\* or dropped by Notify).
C17_UnregisterRemovesWhenPresent ==
    unreg # <<>> =>
       LET u == unreg[1]
       IN  wait = SelectSeq(u.wait, LAMBDA x : x # u.c)

----------------------------------------------------------------------------
(* Claims about the event stream client.  C18 is stated under              *)
(* FairSpecEventSource, the others under SpecEventSource.                   *)

\* C18: a call of Close returns, whatever the client was doing when it was
\* made: connecting, waiting to retry, reading a body, or sending an event
\* the owner has not received.
C18_CloseAlwaysReturns == (closePc = "onClose") ~> (closePc = "returned")

\* C19: once Close has returned nothing is sent on OnOpen, OnMessage or
\* OnError, and neither the loop nor the body goroutine sends on a channel
\* that has been closed.
C19_NoSendAfterClose ==
    /\ closePc = "returned" =>
          /\ esPc \notin {"OnOpen", "OnError"}
          /\ bodyPc \notin {"OnMessage", "OnError"}
    /\ bodyPc # "panic"

\* The field a line of the stream stands for: its name is what precedes the
\* first colon, its value what follows it, less one leading space.
Field(line) ==
    LET colons == {i \in 1..Len(line) : line[i] = ":"}
    IN  IF colons = {} THEN [name |-> line, value |-> <<>>]
        ELSE LET i == CHOOSE c \in colons : \A d \in colons : c <= d
                 rest == [k \in 1..(Len(line) - i) |-> line[i + k]]
             IN  [name |-> [k \in 1..(i - 1) |-> line[k]],
                  value |-> IF rest # <<>> /\ rest[1] = " "
                            THEN [k \in 1..(Len(rest) - 1) |-> rest[k + 1]] ELSE rest]

\* The retry values of Lines that are valid, in milliseconds.
Milliseconds == (<<"1">> :> 1) @@ (<<"2", "0">> :> 20)

\* The lines served so far that set the id, and those that set a valid retry.
IdLines == {i \in 1..Len(served) : Field(served[i]).name = <<"i", "d">>}
RetryLines ==
    {i \in 1..Len(served) : /\ Field(served[i]).name = <<"r", "e", "t", "r", "y">>
                            /\ Field(served[i]).value \in DOMAIN Milliseconds}

Latest(S) == CHOOSE i \in S : \A j \in S : j <= i

\* The id the stream has set last; the empty string when it has set none, or
\* has set it to the empty string.
SeenID == IF IdLines = {} THEN <<>> ELSE Field(served[Latest(IdLines)]).value

SeenRetry ==
    IF RetryLines = {} THEN DefaultRetry
    ELSE Milliseconds[Field(served[Latest(RetryLines)]).value]

\* C20: a request made after a body has been read is made after a wait of the
\* latest valid retry value of the stream, of DefaultRetry when there was
\* none, and carries the latest id of the stream as its Last-Event-ID header;
\* it carries no such header when the stream has set no id (an id line
\* without a value sets none).
C20_RetryAndLastEventIDPersist ==
    (esPc = "Do" /\ served # <<>>) =>
        /\ req.waited = <<SeenRetry>>
        /\ req.header = IF SeenID = <<>> THEN <<>> ELSE <<SeenID>>

\* A reconnect after one millisecond with the id 7, which the stream has set
\* again after an id line without a value.
C20_Witness ==
    /\ esPc = "Do"
    /\ req = [header |-> << <<"7">> >>, waited |-> <<1>>]
    /\ \E i \in 1..Len(served) : served[i] = <<"i", "d">>

\* The lines of the body being read that follow its latest blank line but
\* one, up to the line scanned last: the block that line ends.
BlockStart ==
    LET blanks == {i \in (opened + 1)..(Len(served) - 1) : served[i] = <<>>}
    IN  IF blanks = {} THEN opened + 1 ELSE Latest(blanks) + 1

Block == BlockStart..(Len(served) - 1)

DataLines == {i \in Block : Field(served[i]).name = <<"d", "a", "t", "a">>}
EventLines == {i \in Block : Field(served[i]).name = <<"e", "v", "e", "n", "t">>}

\* The values of the data lines from the i-th line of served on, joined by
\* newlines.
RECURSIVE Joined(_)
Joined(i) ==
    IF i > Len(served) THEN <<>>
    ELSE IF i \notin DataLines THEN Joined(i + 1)
    ELSE IF \E j \in DataLines : j > i
         THEN Field(served[i]).value \o <<"\n">> \o Joined(i + 1)
         ELSE Field(served[i]).value

C22_ClientNeverStopsOnItsOwn ==
    /\ [](esPc = "return" => closePc # "idle")
    /\ [][(esPc # "Do" /\ esPc' = "Do") =>
             /\ ReadyState' = CONNECTING
             /\ req'.waited = IF attempted THEN <<retry>> ELSE <<>>]_vars
    /\ []<>(esPc = "Do" \/ closePc # "idle")

\* A request made one millisecond after a body was read, Close not called.
C22_Witness ==
    /\ esPc = "Do"
    /\ req.waited = <<1>>
    /\ served # <<>>
    /\ closePc = "idle"

\* C23: ReadyState is CONNECTING while the loop waits, makes a request or
\* reports its failure, OPEN from the response of an event stream on, while
\* the loop signals OnOpen and the body is read (messages are sent only once
\* OnOpen has been received), and CLOSED once Close has returned.  It goes
\* from CONNECTING to OPEN only when such a response arrives, from OPEN to
\* CONNECTING only when the loop comes round, to CLOSED only in Close, and
\* never leaves CLOSED.
C23_ReadyStateMachine ==
    /\ [](/\ ReadyState \in {CONNECTING, OPEN, CLOSED}
          /\ closePc = "returned" <=> ReadyState = CLOSED
          /\ (closePc # "returned" /\ esPc \in {"wait", "Do", "OnError"}) =>
                ReadyState = CONNECTING
          /\ (closePc # "returned" /\ esPc \in {"OnOpen", "select"}) => ReadyState = OPEN
          /\ bodyPc \in {"Scan", "OnMessage"} => esPc \in {"select", "return"})
    /\ [][/\ ReadyState = CLOSED => ReadyState' = CLOSED
          /\ (ReadyState = CONNECTING /\ ReadyState' = OPEN) =>
                (esPc = "Do" /\ esPc' = "OnOpen")
          /\ (ReadyState = OPEN /\ ReadyState' = CONNECTING) =>
                (esPc = "for" /\ bodyPc = "none")
          /\ (ReadyState # CLOSED /\ ReadyState' = CLOSED) =>
                (closePc = "closing" /\ esPc = "return")]_vars

\* Close has returned after a body was read and the loop had gone back to
\* wait.
C23_Witness ==
    /\ ReadyState = CLOSED
    /\ served # <<>>
    /\ bodyPc = "none"
    /\ req.waited = <<>>

----------------------------------------------------------------------------
(* Claims about the checks, under SpecChecks and FairSpecChecks.           *)

\* C24: a check that has been started ends, having sent one result to the
\* run loop, whatever the kind of its address and whatever the peer and the
\* rendezvous server do.
C24_EveryCheckEnds ==
    \A a \in Checked :
        (checks[a].pc \notin {"none", "exit"}) ~>
            (checks[a].pc = "exit" /\ checks[a].results = 1)

\* C29: the netpuncher check ends in success exactly if it has read a
\* connection request and the punch that followed went through; when it has
\* returned, the listener and the connection it opened are closed; and a
\* message that is no connection request leaves the check where it was.
C29_NetpuncherCheck ==
    /\ [](LET c == checks[Punched] IN
            c.pc \in {"checkResultChan", "exit"} =>
               /\ c.status = ConnectStatusSuccess <=> (c.creq /\ c.punched)
               /\ c.status \in {ConnectStatusSuccess, ConnectStatusFailure}
               /\ c.listener # "open"
               /\ c.conn # "open")
    /\ [][LET c == checks[Punched] IN
            (c.pc = "ReadFrom" /\ checks'[Punched].pc = "ReadFrom" /\ checks'[Punched] # c) =>
               /\ checks'[Punched].packet \in {"AssID", "other"}
               /\ checks'[Punched] = [c EXCEPT !.packet = checks'[Punched].packet]]_vars

\* The check has succeeded, and has closed what it had opened.
C29_Witness ==
    /\ checks[Punched].pc = "exit"
    /\ checks[Punched].status = ConnectStatusSuccess
    /\ checks[Punched].listener = "closed"
    /\ checks[Punched].conn = "closed"

----------------------------------------------------------------------------
(* More claims about the cache, under Spec.                                *)

\* C25: UpdateGame(game) leaves the game cached under its id with the new
\* payload; the address map is the one the id had, empty if the id was not
\* cached; every other game and the running checks are as they were; and one
\* change notification is emitted, carrying the game as it now is.
C25_UpdateGameUpserts ==
    HandledMsg("reqUpdateSingle") =>
       LET id == last.id IN
       /\ last.payload.ID = id
       /\ DOMAIN games = DOMAIN prev.games \cup {id}
       /\ games[id].Game = last.payload
       /\ games[id].Addrs = (IF id \in DOMAIN prev.games THEN prev.games[id].Addrs ELSE EmptyMap)
       /\ \A other \in DOMAIN games \ {id} : games[other] = prev.games[other]
       /\ probes = prev.probes
       /\ emitted = <<[ID |-> id, G |-> <<games[id]>>]>>

\* C25's case: game 1 gets a new title while its address is being checked
\* and game 2 is cached.
C25_Witness ==
    /\ HandledMsg("reqUpdateSingle")
    /\ last.id = 1
    /\ DOMAIN prev.games = {1, 2}
    /\ prev.games[1].Game # last.payload
    /\ DOMAIN games[1].Addrs # {}
    /\ probes # EmptyBag

\* C26: every key of a game's address map stands for an address that
\* UpdateAddrs put there: the entry carries the address, and the key is the
\* key of that address; and no message but reqUpdateAddrs adds a key to the
\* address map of a game.
C26_AddressKeysComeFromUpdateAddrs ==
    /\ \A id \in DOMAIN games : \A k \in DOMAIN games[id].Addrs :
          /\ games[id].Addrs[k].Addr # NilAddr
          /\ cacheAddrKey(games[id].Addrs[k].Addr) = k
    /\ (loopPc = "handled" /\ last.type # "reqUpdateAddrs") =>
          \A id \in DOMAIN games :
             DOMAIN games[id].Addrs \subseteq
                (IF id \in DOMAIN prev.games THEN DOMAIN prev.games[id].Addrs ELSE {})

----------------------------------------------------------------------------
(* Claims about concurrent calls of the notifier, under SpecCalls.         *)

\* The calls that have received the state and not yet sent it back.
Holding == {g \in Callers : calls[g].pc \in {"for", "n.st<-", "panic"}}

\* What the call of g, run alone on the list and the channels it found, makes
\* of the list, and of those channels.
Alone(g) ==
    LET b == calls[g].before IN
    CASE calls[g].op = "Register" -> [wait |-> Append(b.wait, calls[g].c), chans |-> b.chans]
      [] calls[g].op = "Unregister" -> [wait |-> Unregister(b.wait, calls[g].c), chans |-> b.chans]
      [] calls[g].op = "Notify" -> Notify(b.wait, b.chans, 1)

\* C27: the notifier state is either in the channel n.st, once, or held by
\* one call; a call that has returned does not hold it; and a call that is
\* about to send it back has done to the list and to the channels what it
\* would have done running alone from the moment it received the state.
C27_CallsAreMutuallyExclusive ==
    /\ Len(stChan) + Cardinality(Holding) = 1
    /\ \A g \in Callers :
          calls[g].pc = "n.st<-" =>
             /\ wait = Alone(g).wait
             /\ \A c \in 1..Len(calls[g].before.chans) : chans[c] = Alone(g).chans[c]

\* A Notify that has dropped a subscriber holds the state while another call
\* waits for it.
C27_Witness ==
    \E g, h \in Callers :
       /\ calls[g].op = "Notify"
       /\ calls[g].pc = "n.st<-"
       /\ Len(wait) < Len(calls[g].before.wait)
       /\ calls[h].pc = "<-n.st"

\* C30: every channel of the list is open and is in the list once, no call
\* has panicked on a send or a close, and a channel is closed only in the
\* step that takes it out of the list.
C30_NoSendOrCloseOnClosedChannel ==
    /\ [](/\ \A i \in 1..Len(wait) : ~chans[wait[i]].closed
          /\ \A i, j \in 1..Len(wait) : wait[i] = wait[j] => i = j
          /\ \A g \in Callers : calls[g].pc # "panic")
    /\ [][\A c \in 1..Len(chans) :
            (~chans[c].closed /\ chans'[c].closed) =>
               /\ \E i \in 1..Len(wait) : wait[i] = c
               /\ \A i \in 1..Len(wait') : wait'[i] # c]_vars

\* A channel has been closed and another is in the list.
C30_Witness ==
    /\ \E c \in 1..Len(chans) : chans[c].closed
    /\ wait # <<>>

----------------------------------------------------------------------------
(* A claim about the run loop, under FairSpecRun.                          *)

\* C28: with subscribers that never receive, the loop always comes back to
\* its select, every call of UpdateAllGames, UpdateGame, UpdateAddrs,
\* DeleteGame and Get returns, and the result of every check that has ended
\* is taken.
C28_LoopNeverStalls ==
    /\ (run.pc # "select") ~> (run.pc = "select")
    /\ \A k \in Clients : (run.clients[k] # "idle") ~> (run.clients[k] = "idle")
    /\ \A j \in Checkers :
          (run.checkers[j] = "checkResultChan<-") ~> (run.checkers[j] = "none")

\* The loop is back at its select after a Notify that found the channel of a
\* subscriber full.
C28_Witness ==
    /\ run.pc = "select"
    /\ \E c \in 1..Len(chans) : chans[c].closed
    /\ \E c \in 1..Len(chans) : Len(chans[c].buf) = notifierBufSize /\ ~chans[c].closed

----------------------------------------------------------------------------
(* A claim about the response bodies of the client, under SpecEventSource. *)

\* C31: when the loop starts its next connection attempt, and when it
\* returns on Close, no response body it obtained is still open.
C31_BodyClosedBeforeNextAttempt == esPc \in {"Do", "return"} => ~resOpen

====
